---- MODULE Spec2Model ----
(***************************************************************************)
(* The task manager: the Express server's in-memory store and endpoints    *)
(* (server.js, kept as src/unnamed/part_000), and the React client's       *)
(* copy of the task list with its optimistic mutation handlers             *)
(* (TaskContext.jsx and TaskCard.jsx, the latter kept at the end of        *)
(* src/README.md).                                                         *)
(*                                                                         *)
(* JavaScript objects are functions from key strings to values, so that    *)
(* the spread {...a, ...b} is Merge(a, b).  A key that is absent from a     *)
(* JSON body reads as undefined.  Timestamps are integers read from the    *)
(* server clock `now`; uuidv4() is the next unused identifier.             *)
(***************************************************************************)
EXTENDS Integers, Sequences, FiniteSets, TLC

VARIABLES
  tasks,            \* server: let tasks = [...]
  reminders,        \* server: let reminders = [...]
  now,              \* server: the clock read by new Date()
  uuidCount,        \* server: how many uuidv4() values have been drawn
  req,              \* the HTTP request the server handled last
  res,              \* the response the server gave to it
  mounted,          \* client: TaskProvider's mount effect has run
  unmounted,        \* client: TaskProvider has been torn down
  autoRefresh,      \* client: useState(false), the auto-refresh checkbox
  board,            \* client: TaskBoard's search, filter and sort selections
  view,             \* client: TaskBoard's filteredAndSortedTasks, as last computed
  clientTasks,      \* client: const [tasks, setTasks] = useState([])
  isLoading,        \* client: useState(false)
  error,            \* client: useState(null); <<>> is null, <<e>> is e
  showCreateModal,  \* client: useState(false)
  showEditModal,    \* client: useState(false)
  editingTask,      \* client: useState(null); <<>> is null, <<t>> is t
  isSubmitting,     \* client: useState(false)
  lastRefresh,      \* client: useLocalStorage('lastRefresh', null)
  isUpdating,       \* client: the handleDelete calls whose card has isUpdating true
  clientNow,        \* client: the clock read by Date.now()
  calls,            \* client: the async handlers started, suspended or done
  callCount,        \* client: how many of them were started
  last              \* the step taken last: what happened, and to which call

serverVars == <<tasks, reminders, now, uuidCount>>
httpVars == <<req, res>>
appVars == <<unmounted, autoRefresh, board, view>>
clientVars ==
  <<mounted, appVars, clientTasks, isLoading, error, showCreateModal, showEditModal,
    editingTask, isSubmitting, lastRefresh, isUpdating, clientNow, calls,
    callCount, last>>
vars == <<serverVars, httpVars, clientVars>>

----------------------------------------------------------------------------
(* Bounds of the model. *)

\* The number of requests the server handles in one run of the API on its own.
MaxRequests == 2

\* The number of requests the client sends in one run, the first load included.
MaxCalls == 3

----------------------------------------------------------------------------
(* JavaScript values. *)

Undefined == "<undefined>"
Null == "<null>"

\* !v for the string-valued fields a request body carries.
Falsy(v) == v \in {Undefined, Null, ""}

Has(o, k) == k \in DOMAIN o

\* o[k] of a string-valued key: undefined when the key is absent.
Get(o, k) == IF Has(o, k) THEN o[k] ELSE Undefined

\* {...a, ...b}
Merge(a, b) ==
  [k \in (DOMAIN a) \cup (DOMAIN b) |-> IF k \in DOMAIN b THEN b[k] ELSE a[k]]

\* JSON.stringify leaves out the keys whose value is undefined; dueDate is
\* the only key the server can leave undefined.
ToJSON(o) ==
  [k \in {j \in DOMAIN o : ~(j = "dueDate" /\ o[j] = Undefined)} |-> o[k]]

\* uuidv4(): the n-th identifier drawn.
Uuid(n) == "uuid-" \o ToString(n)

\* s.findIndex(x => x.id === id): the first index that passes, 0 for -1.
IndexOfId(s, id) ==
  IF \E i \in 1..Len(s) : s[i].id = id
  THEN CHOOSE i \in 1..Len(s) :
         s[i].id = id /\ \A j \in 1..(i - 1) : s[j].id # id
  ELSE 0

\* Array.prototype.splice(i, 1)
RemoveAt(s, i) == [j \in 1..(Len(s) - 1) |-> IF j < i THEN s[j] ELSE s[j + 1]]

----------------------------------------------------------------------------
(* JavaScript strings.  A string of the model is looked up as the sequence  *)
(* of its characters, for the two methods that the search filter calls.    *)

\* The characters of the titles, descriptions and search terms that occur.
Chars(s) ==
  CASE s = "Learn React Hooks" -> <<"L", "e", "a", "r", "n", " ", "R", "e",
         "a", "c", "t", " ", "H", "o", "o", "k", "s">>
    [] s = "Study useEffect, useState, and custom hooks" -> <<"S", "t", "u",
         "d", "y", " ", "u", "s", "e", "E", "f", "f", "e", "c", "t", ",",
         " ", "u", "s", "e", "S", "t", "a", "t", "e", ",", " ", "a", "n",
         "d", " ", "c", "u", "s", "t", "o", "m", " ", "h", "o", "o", "k",
         "s">>
    [] s = "Build Task Manager" -> <<"B", "u", "i", "l", "d", " ", "T", "a",
         "s", "k", " ", "M", "a", "n", "a", "g", "e", "r">>
    [] s = "Create a comprehensive task management application" -> <<"C",
         "r", "e", "a", "t", "e", " ", "a", " ", "c", "o", "m", "p", "r",
         "e", "h", "e", "n", "s", "i", "v", "e", " ", "t", "a", "s", "k",
         " ", "m", "a", "n", "a", "g", "e", "m", "e", "n", "t", " ", "a",
         "p", "p", "l", "i", "c", "a", "t", "i", "o", "n">>
    [] s = "Write spec" -> <<"W", "r", "i", "t", "e", " ", "s", "p", "e",
         "c">>
    [] s = "Ship it" -> <<"S", "h", "i", "p", " ", "i", "t">>
    [] s = "Release" -> <<"R", "e", "l", "e", "a", "s", "e">>
    [] s = "Plan" -> <<"P", "l", "a", "n">>
    [] s = "No title" -> <<"N", "o", " ", "t", "i", "t", "l", "e">>
    [] s = "Renamed" -> <<"R", "e", "n", "a", "m", "e", "d">>
    [] s = "" -> <<>>
    [] s = "REACT" -> <<"R", "E", "A", "C", "T">>
    [] s = "write" -> <<"w", "r", "i", "t", "e">>
    [] s = "task" -> <<"t", "a", "s", "k">>
    [] s = "SPEC" -> <<"S", "P", "E", "C">>
    [] s = "LEARNING" -> <<"L", "E", "A", "R", "N", "I", "N", "G">>
    [] s = "react" -> <<"r", "e", "a", "c", "t">>
    [] s = "learning" -> <<"l", "e", "a", "r", "n", "i", "n", "g">>
    [] s = "project" -> <<"p", "r", "o", "j", "e", "c", "t">>
    [] s = "development" -> <<"d", "e", "v", "e", "l", "o", "p", "m", "e",
         "n", "t">>
    [] s = "release" -> <<"r", "e", "l", "e", "a", "s", "e">>

LowerChar(c) ==
  CASE c = "A" -> "a"
    [] c = "B" -> "b"
    [] c = "C" -> "c"
    [] c = "D" -> "d"
    [] c = "E" -> "e"
    [] c = "F" -> "f"
    [] c = "G" -> "g"
    [] c = "H" -> "h"
    [] c = "I" -> "i"
    [] c = "J" -> "j"
    [] c = "K" -> "k"
    [] c = "L" -> "l"
    [] c = "M" -> "m"
    [] c = "N" -> "n"
    [] c = "O" -> "o"
    [] c = "P" -> "p"
    [] c = "Q" -> "q"
    [] c = "R" -> "r"
    [] c = "S" -> "s"
    [] c = "T" -> "t"
    [] c = "U" -> "u"
    [] c = "V" -> "v"
    [] c = "W" -> "w"
    [] c = "X" -> "x"
    [] c = "Y" -> "y"
    [] c = "Z" -> "z"
    [] OTHER -> c

\* String.prototype.toLowerCase
ToLowerCase(cs) == [i \in 1..Len(cs) |-> LowerChar(cs[i])]

\* String.prototype.includes
Includes(cs, term) ==
  \E k \in 0..(Len(cs) - Len(term)) : SubSeq(cs, k + 1, k + Len(term)) = term

\* A value that has the string methods: null and undefined have none.
IsString(v) == v \notin {Undefined, Null}

----------------------------------------------------------------------------
(* The server's store at start-up. *)

InitialTasks ==
  << [id |-> "1",
      title |-> "Learn React Hooks",
      description |-> "Study useEffect, useState, and custom hooks",
      status |-> "in-progress",
      priority |-> "high",
      dueDate |-> "2025-01-20",
      createdAt |-> 0,
      updatedAt |-> 0,
      subtasks |-> << [id |-> "sub1", title |-> "Read useEffect documentation",
                       completed |-> TRUE],
                      [id |-> "sub2", title |-> "Practice custom hooks",
                       completed |-> FALSE] >>,
      tags |-> <<"react", "learning">>,
      assignee |-> "John Doe"],
     [id |-> "2",
      title |-> "Build Task Manager",
      description |-> "Create a comprehensive task management application",
      status |-> "todo",
      priority |-> "medium",
      dueDate |-> "2025-01-25",
      createdAt |-> 0,
      updatedAt |-> 0,
      subtasks |-> << [id |-> "sub3", title |-> "Setup backend API",
                       completed |-> TRUE],
                      [id |-> "sub4", title |-> "Create React components",
                       completed |-> FALSE],
                      [id |-> "sub5", title |-> "Add form validation",
                       completed |-> FALSE] >>,
      tags |-> <<"project", "development">>,
      assignee |-> "Jane Smith"] >>

InitialReminders ==
  << [id |-> "rem1",
      taskId |-> "1",
      message |-> "Don't forget to complete your React learning!",
      reminderTime |-> 0 + 24 * 60 * 60 * 1000,
      isActive |-> TRUE] >>

----------------------------------------------------------------------------
(* The endpoints.  Each handler is a function of the store, the request    *)
(* and the clock, and gives the store it leaves and the response: its      *)
(* status and its JSON body.                                               *)

Reply(ts, status, body) == [tasks |-> ts, status |-> status, body |-> body]

NoContent == [empty |-> TRUE]

\* A validation that rejects a missing title only.
CreateTaskValidatesMissingOnly(body) == Has(body, "title")

\* app.post('/api/tasks'): if (!title) return 400
CreateTaskValidates(body) == ~Falsy(Get(body, "title"))

\* A creation that takes the status from the body when it carries one.
NewTaskKeepsStatus(body, t, newId) ==
  [id |-> newId,
   title |-> body.title,
   description |-> IF Falsy(Get(body, "description")) THEN ""
                   ELSE body.description,
   status |-> IF Has(body, "status") THEN body.status ELSE "todo",
   priority |-> IF Has(body, "priority") THEN body.priority ELSE "medium",
   dueDate |-> Get(body, "dueDate"),
   createdAt |-> t,
   updatedAt |-> t,
   subtasks |-> <<>>,
   tags |-> IF Has(body, "tags") THEN body.tags ELSE <<>>,
   assignee |-> IF Falsy(Get(body, "assignee")) THEN "" ELSE body.assignee]

\* const newTask = {...}: the destructuring defaults (priority = 'medium',
\* tags = []) apply to an absent key only, `|| ''` to every falsy value.
NewTask(body, t, newId) ==
  [id |-> newId,
   title |-> body.title,
   description |-> IF Falsy(Get(body, "description")) THEN ""
                   ELSE body.description,
   status |-> "todo",
   priority |-> IF Has(body, "priority") THEN body.priority ELSE "medium",
   dueDate |-> Get(body, "dueDate"),
   createdAt |-> t,
   updatedAt |-> t,
   subtasks |-> <<>>,
   tags |-> IF Has(body, "tags") THEN body.tags ELSE <<>>,
   assignee |-> IF Falsy(Get(body, "assignee")) THEN "" ELSE body.assignee]

PostTask(ts, body, t, newId) ==
  IF ~CreateTaskValidates(body)
  THEN Reply(ts, 400, [error |-> "Title is required"])
  ELSE LET newTask == NewTask(body, t, newId)
       IN Reply(Append(ts, newTask), 201, ToJSON(newTask))

\* An update that replaces the record by the body.
UpdatedTaskReplaces(task, body, t) == Merge(body, [updatedAt |-> t])

\* An update in which the body's updatedAt wins over the server's clock.
UpdatedTaskKeepsBodyStamp(task, body, t) ==
  Merge(Merge(task, [updatedAt |-> t]), body)

\* app.put('/api/tasks/:id'): {...tasks[taskIndex], ...req.body, updatedAt}
UpdatedTask(task, body, t) == Merge(Merge(task, body), [updatedAt |-> t])

PutTask(ts, id, body, t) ==
  LET taskIndex == IndexOfId(ts, id)
  IN IF taskIndex = 0
     THEN Reply(ts, 404, [error |-> "Task not found"])
     ELSE LET updatedTask == UpdatedTask(ts[taskIndex], body, t)
          IN Reply([ts EXCEPT ![taskIndex] = updatedTask], 200,
                   ToJSON(updatedTask))

\* app.delete('/api/tasks/:id')
DeleteTask(ts, id) ==
  LET taskIndex == IndexOfId(ts, id)
  IN IF taskIndex = 0
     THEN Reply(ts, 404, [error |-> "Task not found"])
     ELSE Reply(RemoveAt(ts, taskIndex), 204, NoContent)

\* The search filter's test of one task: title, then description only when
\* the title does not match.  It throws when it calls toLowerCase on a value
\* that is not a string.
SearchThrows(task, search) ==
  \/ ~IsString(task.title)
  \/ /\ ~Includes(ToLowerCase(Chars(task.title)), ToLowerCase(Chars(search)))
     /\ ~IsString(task.description)

SearchMatches(task, search) ==
  \/ Includes(ToLowerCase(Chars(task.title)), ToLowerCase(Chars(search)))
  \/ Includes(ToLowerCase(Chars(task.description)), ToLowerCase(Chars(search)))

\* app.get('/api/tasks'): the filters of req.query, one after the other.  An
\* exception in a handler is answered 500 by Express.
GetTasks(ts, query) ==
  LET status == Get(query, "status")
      priority == Get(query, "priority")
      search == Get(query, "search")
      byStatus ==
        IF Falsy(status) THEN ts
        ELSE SelectSeq(ts, LAMBDA task : task.status = status)
      byPriority ==
        IF Falsy(priority) THEN byStatus
        ELSE SelectSeq(byStatus, LAMBDA task : task.priority = priority)
  IN IF Falsy(search)
     THEN Reply(ts, 200, [i \in 1..Len(byPriority) |-> ToJSON(byPriority[i])])
     ELSE IF \E i \in 1..Len(byPriority) : SearchThrows(byPriority[i], search)
     THEN Reply(ts, 500, [k \in {} |-> Undefined])
     ELSE LET bySearch ==
                SelectSeq(byPriority, LAMBDA task : SearchMatches(task, search))
          IN Reply(ts, 200, [i \in 1..Len(bySearch) |-> ToJSON(bySearch[i])])

\* app.get('/api/tasks/:id')
GetTask(ts, id) ==
  LET taskIndex == IndexOfId(ts, id)
  IN IF taskIndex = 0
     THEN Reply(ts, 404, [error |-> "Task not found"])
     ELSE Reply(ts, 200, ToJSON(ts[taskIndex]))

\* A subtask creation that also moves its task to in-progress.
PostSubtaskStartsTask(ts, id, body, t, newId) ==
  LET taskIndex == IndexOfId(ts, id)
  IN IF taskIndex = 0
     THEN Reply(ts, 404, [error |-> "Task not found"])
     ELSE IF Falsy(Get(body, "title"))
     THEN Reply(ts, 400, [error |-> "Subtask title is required"])
     ELSE LET newSubtask ==
                [id |-> newId, title |-> body.title, completed |-> FALSE]
              task == ts[taskIndex]
          IN Reply([ts EXCEPT ![taskIndex] =
                      [task EXCEPT !.subtasks = Append(@, newSubtask),
                                   !.status = "in-progress",
                                   !.updatedAt = t]],
                   201, newSubtask)

\* A subtask creation that validates the title before it looks up the task.
PostSubtaskTitleFirst(ts, id, body, t, newId) ==
  LET taskIndex == IndexOfId(ts, id)
  IN IF Falsy(Get(body, "title"))
     THEN Reply(ts, 400, [error |-> "Subtask title is required"])
     ELSE IF taskIndex = 0
     THEN Reply(ts, 404, [error |-> "Task not found"])
     ELSE LET newSubtask ==
                [id |-> newId, title |-> body.title, completed |-> FALSE]
              task == ts[taskIndex]
          IN Reply([ts EXCEPT ![taskIndex] =
                      [task EXCEPT !.subtasks = Append(@, newSubtask),
                                   !.updatedAt = t]],
                   201, newSubtask)

\* app.post('/api/tasks/:id/subtasks')
PostSubtask(ts, id, body, t, newId) ==
  LET taskIndex == IndexOfId(ts, id)
  IN IF taskIndex = 0
     THEN Reply(ts, 404, [error |-> "Task not found"])
     ELSE IF Falsy(Get(body, "title"))
     THEN Reply(ts, 400, [error |-> "Subtask title is required"])
     ELSE LET newSubtask ==
                [id |-> newId, title |-> body.title, completed |-> FALSE]
              task == ts[taskIndex]
          IN Reply([ts EXCEPT ![taskIndex] =
                      [task EXCEPT !.subtasks = Append(@, newSubtask),
                                   !.updatedAt = t]],
                   201, newSubtask)

\* A subtask update that stamps the task before it looks up the subtask.
PutSubtaskTouchesFirst(ts, taskId, subtaskId, body, t) ==
  LET taskIndex == IndexOfId(ts, taskId)
  IN IF taskIndex = 0
     THEN Reply(ts, 404, [error |-> "Task not found"])
     ELSE LET task == [ts[taskIndex] EXCEPT !.updatedAt = t]
              touched == [ts EXCEPT ![taskIndex] = task]
              subtaskIndex == IndexOfId(task.subtasks, subtaskId)
          IN IF subtaskIndex = 0
             THEN Reply(touched, 404, [error |-> "Subtask not found"])
             ELSE LET merged == Merge(task.subtasks[subtaskIndex], body)
                  IN Reply([touched EXCEPT
                              ![taskIndex].subtasks[subtaskIndex] = merged],
                           200, merged)

\* app.put('/api/tasks/:taskId/subtasks/:subtaskId')
PutSubtask(ts, taskId, subtaskId, body, t) ==
  LET taskIndex == IndexOfId(ts, taskId)
  IN IF taskIndex = 0
     THEN Reply(ts, 404, [error |-> "Task not found"])
     ELSE LET task == ts[taskIndex]
              subtaskIndex == IndexOfId(task.subtasks, subtaskId)
          IN IF subtaskIndex = 0
             THEN Reply(ts, 404, [error |-> "Subtask not found"])
             ELSE LET merged == Merge(task.subtasks[subtaskIndex], body)
                  IN Reply([ts EXCEPT ![taskIndex] =
                              [task EXCEPT !.subtasks[subtaskIndex] = merged,
                                           !.updatedAt = t]],
                           200, merged)

\* app.delete('/api/tasks/:taskId/subtasks/:subtaskId')
DeleteSubtask(ts, taskId, subtaskId, t) ==
  LET taskIndex == IndexOfId(ts, taskId)
  IN IF taskIndex = 0
     THEN Reply(ts, 404, [error |-> "Task not found"])
     ELSE LET task == ts[taskIndex]
              subtaskIndex == IndexOfId(task.subtasks, subtaskId)
          IN IF subtaskIndex = 0
             THEN Reply(ts, 404, [error |-> "Subtask not found"])
             ELSE Reply([ts EXCEPT ![taskIndex] =
                           [task EXCEPT
                              !.subtasks = RemoveAt(@, subtaskIndex),
                              !.updatedAt = t]],
                        204, NoContent)

\* new Date(dueDate): the instant of a due date on the axis of the server
\* clock, on which the seeded due dates fall after the first requests.
DateOf(dueDate) ==
  CASE dueDate = "2025-01-20" -> 1
    [] dueDate = "2025-01-25" -> 2
    [] dueDate = "2025-03-01" -> 4

\* t.dueDate && new Date(t.dueDate) < new Date() && t.status !== 'completed'
Overdue(task, t) ==
  /\ ~Falsy(Get(task, "dueDate"))
  /\ DateOf(task.dueDate) < t
  /\ task.status # "completed"

\* Statistics that count the completed tasks as overdue too.
GetStatsIgnoresStatus(ts, t) ==
  LET count(s) == Len(SelectSeq(ts, LAMBDA task : task.status = s))
  IN Reply(ts, 200,
           [total |-> Len(ts),
            todo |-> count("todo"),
            inProgress |-> count("in-progress"),
            completed |-> count("completed"),
            overdue |-> Len(SelectSeq(ts, LAMBDA task :
                          /\ ~Falsy(Get(task, "dueDate"))
                          /\ DateOf(task.dueDate) < t))])

\* app.get('/api/stats')
GetStats(ts, t) ==
  LET count(s) == Len(SelectSeq(ts, LAMBDA task : task.status = s))
  IN Reply(ts, 200,
           [total |-> Len(ts),
            todo |-> count("todo"),
            inProgress |-> count("in-progress"),
            completed |-> count("completed"),
            overdue |-> Len(SelectSeq(ts, LAMBDA task : Overdue(task, t)))])

\* What a reminder handler leaves and answers.
ReminderReply(rs, status, body) ==
  [reminders |-> rs, status |-> status, body |-> body]

\* app.get('/api/reminders')
GetReminders(rs) == ReminderReply(rs, 200, rs)

\* A creation that refuses a reminder for a task that is not in the store.
PostReminderChecksTask(rs, body, newId) ==
  IF \/ Falsy(Get(body, "taskId"))
     \/ Falsy(Get(body, "message"))
     \/ Falsy(Get(body, "reminderTime"))
  THEN ReminderReply(rs, 400,
         [error |-> "TaskId, message, and reminderTime are required"])
  ELSE IF IndexOfId(tasks, body.taskId) = 0
  THEN ReminderReply(rs, 404, [error |-> "Task not found"])
  ELSE LET newReminder ==
             [id |-> newId, taskId |-> body.taskId, message |-> body.message,
              reminderTime |-> body.reminderTime, isActive |-> TRUE]
       IN ReminderReply(Append(rs, newReminder), 201, newReminder)

\* app.post('/api/reminders')
PostReminder(rs, body, newId) ==
  IF \/ Falsy(Get(body, "taskId"))
     \/ Falsy(Get(body, "message"))
     \/ Falsy(Get(body, "reminderTime"))
  THEN ReminderReply(rs, 400,
         [error |-> "TaskId, message, and reminderTime are required"])
  ELSE LET newReminder ==
             [id |-> newId, taskId |-> body.taskId, message |-> body.message,
              reminderTime |-> body.reminderTime, isActive |-> TRUE]
       IN ReminderReply(Append(rs, newReminder), 201, newReminder)

\* app.delete('/api/reminders/:id')
DeleteReminder(rs, id) ==
  LET reminderIndex == IndexOfId(rs, id)
  IN IF reminderIndex = 0
     THEN ReminderReply(rs, 404, [error |-> "Reminder not found"])
     ELSE ReminderReply(RemoveAt(rs, reminderIndex), 204, NoContent)

\* The router: the handler of the request's method and path.
EmptyBody == [k \in {} |-> Undefined]

Request(op, id, subtaskId, body) ==
  [id |-> id, body |-> body, query |-> EmptyBody, subtaskId |-> subtaskId,
   op |-> op]

\* GET /api/tasks?status=...&priority=...&search=...
ListRequest(query) ==
  [Request("GET /api/tasks", Undefined, Undefined, EmptyBody)
     EXCEPT !.query = query]

Handle(ts, r, t, newId) ==
  CASE r.op = "GET /api/tasks" -> GetTasks(ts, r.query)
    [] r.op = "GET /api/tasks/:id" -> GetTask(ts, r.id)
    [] r.op = "GET /api/stats" -> GetStats(ts, t)
    [] r.op = "GET /api/reminders" -> GetReminders(reminders)
    [] r.op = "POST /api/reminders" -> PostReminder(reminders, r.body, newId)
    [] r.op = "DELETE /api/reminders/:id" -> DeleteReminder(reminders, r.id)
    [] r.op = "POST /api/tasks" -> PostTask(ts, r.body, t, newId)
    [] r.op = "PUT /api/tasks/:id" -> PutTask(ts, r.id, r.body, t)
    [] r.op = "DELETE /api/tasks/:id" -> DeleteTask(ts, r.id)
    [] r.op = "POST /api/tasks/:id/subtasks" ->
         PostSubtask(ts, r.id, r.body, t, newId)
    [] r.op = "PUT /api/tasks/:taskId/subtasks/:subtaskId" ->
         PutSubtask(ts, r.id, r.subtaskId, r.body, t)
    [] r.op = "DELETE /api/tasks/:taskId/subtasks/:subtaskId" ->
         DeleteSubtask(ts, r.id, r.subtaskId, t)

\* The server handles one request to completion: requests do not interleave.
\* Each request is handled at a later instant of the clock than the one
\* before; the handlers that call uuidv4() draw one identifier each when
\* they get as far as building the new record.
Answer(r, out) ==
  /\ tasks' = IF Has(out, "tasks") THEN out.tasks ELSE tasks
  /\ reminders' = IF Has(out, "reminders") THEN out.reminders ELSE reminders
  /\ now' = now + 1
  /\ uuidCount' = IF out.status = 201 THEN uuidCount + 1 ELSE uuidCount
  /\ req' = r
  /\ res' = [status |-> out.status, body |-> out.body]

Serve(r) ==
  /\ Answer(r, Handle(tasks, r, now + 1, Uuid(uuidCount + 1)))
  /\ UNCHANGED clientVars

----------------------------------------------------------------------------
(* The requests a client of the API sends. *)

MissingId == "missing"

TaskIdsOf(ts) == {ts[i].id : i \in 1..Len(ts)}

\* The :id of a request: an identifier in the store, or one that is not.
RequestTaskIds == TaskIdsOf(tasks) \cup {MissingId}

RequestSubtaskIds(id) ==
  LET i == IndexOfId(tasks, id)
  IN (IF i = 0 THEN {} ELSE TaskIdsOf(tasks[i].subtasks)) \cup {MissingId}

PostBodies ==
  { [title |-> "Write spec"],
    [title |-> "Ship it", description |-> "Release", priority |-> "high",
     dueDate |-> "2025-03-01", tags |-> <<"release">>, assignee |-> "Ann",
     status |-> "completed", id |-> "1",
     subtasks |-> << [id |-> "s", title |-> "Tag", completed |-> TRUE] >>],
    [title |-> "Plan", description |-> Null, priority |-> Null,
     dueDate |-> Null, assignee |-> ""],
    [title |-> ""],
    [title |-> Null, description |-> "No title"],
    [priority |-> "low", description |-> "No title"] }

PutBodies ==
  { [status |-> "completed"],
    [title |-> "Renamed", priority |-> "low", dueDate |-> Null],
    [id |-> "2", updatedAt |-> 99, note |-> "extra"],
    [id |-> "1", title |-> "", status |-> "archived", description |-> Null],
    EmptyBody }

\* req.query of GET /api/tasks
Queries ==
  { EmptyBody,
    [status |-> "todo"], [status |-> "in-progress"], [status |-> "completed"],
    [priority |-> "high"],
    [search |-> "REACT"],
    [search |-> "write"],
    [status |-> "todo", priority |-> "medium", search |-> "task"],
    [status |-> "", search |-> "SPEC"] }

ReminderIds == TaskIdsOf(reminders) \cup {MissingId}

ReminderPostBodies ==
  { [taskId |-> "1", message |-> "Stand-up", reminderTime |-> "2025-02-01T09:00"],
    [taskId |-> MissingId, message |-> "Orphan",
     reminderTime |-> "2025-02-01T09:00"],
    [taskId |-> "1", message |-> "", reminderTime |-> "2025-02-01T09:00"],
    EmptyBody }

SubtaskPostBodies == { [title |-> "Review"], [title |-> ""], EmptyBody }

SubtaskPutBodies ==
  { [completed |-> TRUE],
    [completed |-> FALSE, title |-> "Redo"],
    [id |-> "sub1", title |-> "", completed |-> Null] }

ListTasks ==
  /\ now < MaxRequests
  /\ \E query \in Queries : Serve(ListRequest(query))

ReadTask ==
  /\ now < MaxRequests
  /\ \E id \in RequestTaskIds :
       Serve(Request("GET /api/tasks/:id", id, Undefined, EmptyBody))

ReadStats ==
  /\ now < MaxRequests
  /\ Serve(Request("GET /api/stats", Undefined, Undefined, EmptyBody))

CreateTask ==
  /\ now < MaxRequests
  /\ \E body \in PostBodies :
       Serve(Request("POST /api/tasks", Undefined, Undefined, body))

UpdateTask ==
  /\ now < MaxRequests
  /\ \E id \in RequestTaskIds, body \in PutBodies :
       Serve(Request("PUT /api/tasks/:id", id, Undefined, body))

RemoveTask ==
  /\ now < MaxRequests
  /\ \E id \in RequestTaskIds :
       Serve(Request("DELETE /api/tasks/:id", id, Undefined, EmptyBody))

CreateSubtask ==
  /\ now < MaxRequests
  /\ \E id \in RequestTaskIds, body \in SubtaskPostBodies :
       Serve(Request("POST /api/tasks/:id/subtasks", id, Undefined, body))

UpdateSubtask ==
  /\ now < MaxRequests
  /\ \E id \in RequestTaskIds :
       \E sid \in RequestSubtaskIds(id), body \in SubtaskPutBodies :
         Serve(Request("PUT /api/tasks/:taskId/subtasks/:subtaskId", id, sid,
                       body))

RemoveSubtask ==
  /\ now < MaxRequests
  /\ \E id \in RequestTaskIds :
       \E sid \in RequestSubtaskIds(id) :
         Serve(Request("DELETE /api/tasks/:taskId/subtasks/:subtaskId", id,
                       sid, EmptyBody))

ListReminders ==
  /\ now < MaxRequests
  /\ Serve(Request("GET /api/reminders", Undefined, Undefined, EmptyBody))

CreateReminder ==
  /\ now < MaxRequests
  /\ \E body \in ReminderPostBodies :
       Serve(Request("POST /api/reminders", Undefined, Undefined, body))

RemoveReminder ==
  /\ now < MaxRequests
  /\ \E id \in ReminderIds :
       Serve(Request("DELETE /api/reminders/:id", id, Undefined, EmptyBody))

NoRequest == Request("none", Undefined, Undefined, EmptyBody)

\* A suspended handler: the request it sent, the task prop (TaskCard) or the
\* tasks state (handleUpdateTask) it closed over, and the promise it awaits.
Call(handler, request, task, previousTasks, tempSubtask) ==
  [handler |-> handler, request |-> request, task |-> task,
   previousTasks |-> previousTasks, tempSubtask |-> tempSubtask,
   stage |-> "sent", orphan |-> FALSE,
   response |-> [ok |-> FALSE, data |-> <<>>, message |-> ""]]

\* A step of the client: what happened, and the call it happened to.
Step(event, id, call) == [event |-> event, id |-> id, call |-> call]

NoCall == Step("none", 0, Call("none", NoRequest, EmptyBody, <<>>, EmptyBody))

\* A step of the user that starts no handler and resumes none.
UserStep == Step("user", 0, NoCall.call)

\* TaskBoard's selections when localStorage holds none.
DefaultBoard ==
  [searchTerm |-> "", statusFilter |-> "all", priorityFilter |-> "all",
   sortBy |-> "createdAt", sortOrder |-> "desc"]

\* The state of TaskProvider after construction: the useState initial values.
ClientInit ==
  /\ mounted = FALSE
  /\ unmounted = FALSE
  /\ autoRefresh = FALSE
  /\ board = DefaultBoard
  /\ view = [threw |-> FALSE, tasks |-> <<>>]
  /\ clientTasks = <<>>
  /\ isLoading = FALSE
  /\ error = <<>>
  /\ showCreateModal = FALSE
  /\ showEditModal = FALSE
  /\ editingTask = <<>>
  /\ isSubmitting = FALSE
  /\ lastRefresh = <<>>
  /\ isUpdating = {}
  /\ clientNow = 1
  /\ calls = <<>>
  /\ callCount = 0
  /\ last = NoCall

StoreInit ==
  /\ tasks = InitialTasks
  /\ reminders = InitialReminders
  /\ now = 0
  /\ uuidCount = 0
  /\ req = NoRequest
  /\ res = [status |-> 0, body |-> EmptyBody]

\* The API on its own: the client takes no step.
ServerInit == StoreInit /\ ClientInit

ServerNext ==
  \/ ListTasks
  \/ ReadTask
  \/ ReadStats
  \/ ListReminders
  \/ CreateReminder
  \/ RemoveReminder
  \/ CreateTask
  \/ UpdateTask
  \/ RemoveTask
  \/ CreateSubtask
  \/ UpdateSubtask
  \/ RemoveSubtask

\* The API on its own: any client, any sequence of requests.
SpecServer == ServerInit /\ [][ServerNext]_vars

\* A step in which the server handles a request with this method and path.
Handled(op) == now' # now /\ req'.op = op

----------------------------------------------------------------------------
(* The API client (utils/api.js). *)

\* apiRequest: what the awaited promise settles to.  A response that is not
\* ok rejects with the body's error field or an HTTP status message; a 204
\* resolves to null; any other response resolves to the parsed body.
Resolved(data) == [ok |-> TRUE, data |-> data, message |-> ""]

Rejected(message) == [ok |-> FALSE, data |-> <<>>, message |-> message]

\* An apiRequest that throws the status message whatever the body says.
ApiResultGeneric(status, body) ==
  IF status \in 200..299
  THEN Resolved(IF status = 204 THEN Null ELSE body)
  ELSE Rejected("HTTP error! status: " \o ToString(status))

ApiResult(status, body) ==
  IF status \in 200..299
  THEN Resolved(IF status = 204 THEN Null ELSE body)
  ELSE Rejected(IF Has(body, "error") /\ ~Falsy(body.error) THEN body.error
                ELSE "HTTP error! status: " \o ToString(status))

\* fetch() itself rejects: the request did not reach the server.
FetchFailed == Rejected("Failed to fetch")
\* fetchTasks: the query string holds the filters whose value is truthy.
QueryOf(filters) ==
  [key \in {k \in DOMAIN filters : ~Falsy(filters[k])} |-> filters[key]]

----------------------------------------------------------------------------
(* The client state (context/TaskContext.jsx) and the task cards           *)
(* (TaskCard.jsx).  An async handler runs to its await in one step, and    *)
(* from the settled promise to its end in another; `calls` holds the       *)
(* handlers that are suspended, each with the values its closure captured. *)

\* A handler that sets no error when its request fails.
ErrorOfNothing(message, fallback) == <<>>

\* setError({ message: error.message || fallback })
ErrorOf(message, fallback) ==
  << [message |-> IF Falsy(message) THEN fallback ELSE message] >>

\* The ids of the calls that are suspended; a call that has run to its end
\* stays in `calls`, marked done.
Pending == {id \in DOMAIN calls : calls[id].stage # "done"}

\* A handler runs to its await: it is the next call, started while the calls
\* in startedWhile were suspended.
Start(call) ==
  /\ callCount < MaxCalls
  /\ callCount' = callCount + 1
  /\ calls' = Append(calls, Merge(call, [startedWhile |-> Pending]))
  /\ last' = Step("started", callCount + 1, calls'[callCount + 1])

\* A handler runs from its await to its end.
Finish(id, event) ==
  /\ calls' = [calls EXCEPT ![id].stage = "done"]
  /\ last' = Step(event, id, calls[id])
  /\ UNCHANGED callCount

\* TaskBoard renders the cards only when it has no error and is not loading.
CardsShown(loading, err) == ~loading /\ err = <<>>

\* Modal: the backdrop of an open modal covers the page, and a click on it
\* closes the modal; what is behind it, the header, the error banner and the
\* cards, is not clicked while a modal is open.
PageReachable == ~unmounted /\ ~showCreateModal /\ ~showEditModal

\* React drops the state updates of a component that has been unmounted.
SetState(old, new) == IF unmounted THEN old ELSE new

\* A card keeps its state while it stays mounted: while the cards are shown
\* and its task stays in the list with the same status, that is, in the same
\* column.  `updating` are the calls that set isUpdating on their card; the
\* ones whose card is unmounted have lost it.
StillMounted(updating, old, new, loading, err) ==
  IF ~CardsShown(loading, err) THEN {}
  ELSE {c \in updating :
          \E i \in 1..Len(old), j \in 1..Len(new) :
            /\ old[i].id = calls[c].task.id
            /\ new[j].id = calls[c].task.id
            /\ old[i].status = new[j].status}

\* The ids of the tasks whose card has its select and its buttons disabled.
UpdatingIds == {calls[c].task.id : c \in isUpdating}

\* handleTaskUpdate: prevTasks.map(task => task.id === updatedTask.id ? updatedTask : task)
HandleTaskUpdate(prevTasks, updatedTask) ==
  [i \in 1..Len(prevTasks) |->
     IF prevTasks[i].id = updatedTask.id THEN updatedTask ELSE prevTasks[i]]

\* A deletion that leaves the task in the list.
HandleTaskDeleteKeeps(prevTasks, taskId) == prevTasks

\* handleTaskDelete: prevTasks.filter(task => task.id !== taskId)
HandleTaskDelete(prevTasks, taskId) ==
  SelectSeq(prevTasks, LAMBDA task : task.id # taskId)

\* What a render commits: the new task list, and the cards that survive it.
Commit(newTasks, loading, err, updating) ==
  /\ clientTasks' = SetState(clientTasks, newTasks)
  /\ isLoading' = SetState(isLoading, loading)
  /\ error' = SetState(error, err)
  /\ isUpdating' =
       SetState(isUpdating,
                StillMounted(updating, clientTasks, newTasks, loading, err))

uiVars == <<showCreateModal, showEditModal, editingTask, isSubmitting>>

\* The request of a suspended handler reaches the server and is answered.
Deliver ==
  \E id \in Pending :
    /\ calls[id].stage = "sent"
    /\ LET r == calls[id].request
           out == Handle(tasks, r, now + 1, Uuid(uuidCount + 1))
       IN /\ Answer(r, out)
          /\ calls' = [calls EXCEPT ![id].stage = "settled",
                                    ![id].response = ApiResult(out.status, out.body)]
    /\ last' = Step("answered", id, calls'[id])
    /\ UNCHANGED <<mounted, appVars, clientTasks, isLoading, error, uiVars, lastRefresh,
                   isUpdating, clientNow, callCount>>

\* The request of a suspended handler fails in transport.
FetchFails ==
  \E id \in Pending :
    /\ calls[id].stage = "sent"
    /\ calls' = [calls EXCEPT ![id].stage = "settled",
                              ![id].response = FetchFailed]
    /\ last' = Step("failed", id, calls'[id])
    /\ UNCHANGED <<serverVars, httpVars, mounted, appVars, clientTasks, isLoading,
                   error, uiVars, lastRefresh, isUpdating, clientNow, callCount>>

Settled(id, handler) ==
  /\ id \in Pending
  /\ calls[id].stage = "settled"
  /\ calls[id].handler = handler

\* loadTasks, to its await: setIsLoading(true); setError(null); fetchTasks()
LoadTasks ==
  /\ Start(Call("loadTasks",
                Request("GET /api/tasks", Undefined, Undefined, EmptyBody),
                EmptyBody, <<>>, EmptyBody))
  /\ Commit(clientTasks, TRUE, <<>>, isUpdating)
  /\ UNCHANGED <<serverVars, httpVars, appVars, uiVars, lastRefresh, clientNow>>

\* useEffect(() => { loadTasks(); }, [])
Mount ==
  /\ ~mounted
  /\ mounted' = TRUE
  /\ LoadTasks

\* The Refresh button (disabled while loading) and the error view's Try Again.
Refresh ==
  /\ mounted /\ PageReachable
  /\ ~isLoading \/ error # <<>>
  /\ UNCHANGED mounted
  /\ LoadTasks

\* The auto-refresh checkbox of the header: setAutoRefresh(e.target.checked).
\* It is switched while a request can still be sent.
ToggleAutoRefresh ==
  /\ mounted /\ PageReachable
  /\ callCount < MaxCalls
  /\ autoRefresh' = ~autoRefresh
  /\ last' = UserStep
  /\ UNCHANGED <<serverVars, httpVars, mounted, unmounted, board, view,
                 clientTasks, isLoading, error, uiVars, lastRefresh,
                 isUpdating, clientNow, calls, callCount>>

\* setInterval(() => { loadTasks(); }, 30000), running while autoRefresh is
\* set and until the effect's cleanup clears it.
AutoRefreshTick ==
  /\ autoRefresh /\ mounted /\ ~unmounted
  /\ UNCHANGED mounted
  /\ LoadTasks

\* TaskProvider is torn down.  The mount effect returns no cleanup, so the
\* requests in flight stay in flight, orphans of the component that sent
\* them; the interval is cleared.
Unmount ==
  /\ mounted /\ ~unmounted
  /\ unmounted' = TRUE
  /\ calls' = [id \in DOMAIN calls |->
                IF calls[id].stage = "sent"
                THEN [calls[id] EXCEPT !.orphan = TRUE] ELSE calls[id]]
  /\ last' = Step("unmounted", 0, NoCall.call)
  /\ UNCHANGED <<serverVars, httpVars, mounted, autoRefresh, board, view,
                 clientTasks, isLoading, error, uiVars, lastRefresh,
                 isUpdating, clientNow, callCount>>

\* A load that adds the fetched tasks to the ones the client holds.
LoadedTasksAdded(currentTasks, fetchedTasks) == currentTasks \o fetchedTasks

\* loadTasks, try: setTasks(fetchedTasks)
LoadedTasks(currentTasks, fetchedTasks) == fetchedTasks

\* loadTasks, from its await
LoadTasksSettled ==
  \E id \in Pending :
    /\ Settled(id, "loadTasks")
    /\ LET r == calls[id].response
       IN IF r.ok
          THEN /\ Commit(LoadedTasks(clientTasks, r.data), FALSE, error,
                         isUpdating)
               /\ lastRefresh' = <<clientNow>>
               /\ clientNow' = clientNow + 1
          ELSE /\ Commit(clientTasks, FALSE,
                         ErrorOf(r.message, "Failed to load tasks"), isUpdating)
               /\ UNCHANGED <<lastRefresh, clientNow>>
    /\ Finish(id, IF calls[id].response.ok THEN "fulfilled" ELSE "rejected")
    /\ UNCHANGED <<serverVars, httpVars, mounted, appVars, uiVars>>

\* The data a submitted TaskForm passes on: its fields start from initialData
\* and carry what the user typed over them.
FormData(initialData, typed) ==
  Merge([title |-> IF Falsy(Get(initialData, "title")) THEN ""
                   ELSE initialData.title,
         description |-> IF Falsy(Get(initialData, "description")) THEN ""
                         ELSE initialData.description,
         priority |-> IF Falsy(Get(initialData, "priority")) THEN "medium"
                      ELSE initialData.priority,
         dueDate |-> IF Falsy(Get(initialData, "dueDate")) THEN Null
                     ELSE initialData.dueDate,
         assignee |-> IF Falsy(Get(initialData, "assignee")) THEN ""
                      ELSE initialData.assignee,
         tags |-> IF Has(initialData, "tags") THEN initialData.tags ELSE <<>>],
        typed)

\* What the user types into the create form and into the edit form.
CreateInputs == { [title |-> "Write spec"] }

EditInputs == { [title |-> "Renamed"], [priority |-> "low", dueDate |-> Null] }

\* handleOpenCreateModal, and Ctrl/Cmd + N.  A form is opened while a request
\* can still be sent from it.
OpenCreateModal ==
  /\ mounted /\ ~unmounted /\ ~showCreateModal
  /\ callCount < MaxCalls
  /\ showCreateModal' = TRUE
  /\ last' = UserStep
  /\ UNCHANGED <<serverVars, httpVars, mounted, appVars, clientTasks, isLoading, error,
                 showEditModal, editingTask, isSubmitting, lastRefresh,
                 isUpdating, clientNow, calls, callCount>>

\* handleCloseCreateModal: Cancel, the backdrop, Escape
CloseCreateModal ==
  /\ showCreateModal /\ ~unmounted
  /\ showCreateModal' = FALSE
  /\ last' = UserStep
  /\ UNCHANGED <<serverVars, httpVars, mounted, appVars, clientTasks, isLoading, error,
                 showEditModal, editingTask, isSubmitting, lastRefresh,
                 isUpdating, clientNow, calls, callCount>>

\* handleCreateTask, to its await.  The form's submit button is disabled
\* while isSubmitting, and the form refuses an empty title.
HandleCreateTask ==
  \E typed \in CreateInputs :
    /\ showCreateModal /\ ~isSubmitting /\ ~unmounted
    /\ LET taskData == FormData(EmptyBody, typed)
       IN /\ ~Falsy(taskData.title)
          /\ Start(Call("handleCreateTask",
                        Request("POST /api/tasks", Undefined, Undefined, taskData),
                        EmptyBody, <<>>, EmptyBody))
    /\ isSubmitting' = TRUE
    /\ UNCHANGED <<serverVars, httpVars, mounted, appVars, clientTasks, isLoading, error,
                   showCreateModal, showEditModal, editingTask, lastRefresh,
                   isUpdating, clientNow>>

\* A creation that puts the new task at the end of the list.
CreatedTaskAppended(prevTasks, newTask) == Append(prevTasks, newTask)

\* handleCreateTask, try: setTasks(prevTasks => [newTask, ...prevTasks])
CreatedTaskAdded(prevTasks, newTask) == <<newTask>> \o prevTasks

\* handleCreateTask, from its await
CreateTaskSettled ==
  \E id \in Pending :
    /\ Settled(id, "handleCreateTask")
    /\ LET r == calls[id].response
       IN IF r.ok
          THEN /\ Commit(CreatedTaskAdded(clientTasks, r.data), isLoading,
                         error, isUpdating)
               /\ showCreateModal' = SetState(showCreateModal, FALSE)
          ELSE /\ Commit(clientTasks, isLoading,
                         ErrorOf(r.message, "Failed to create task"), isUpdating)
               /\ UNCHANGED showCreateModal
    /\ isSubmitting' = SetState(isSubmitting, FALSE)
    /\ Finish(id, IF calls[id].response.ok THEN "fulfilled" ELSE "rejected")
    /\ UNCHANGED <<serverVars, httpVars, mounted, appVars, showEditModal, editingTask,
                   lastRefresh, clientNow>>

\* handleEditTask: the Edit button of a card (disabled while isUpdating)
HandleEditTask ==
  \E i \in 1..Len(clientTasks) :
    /\ CardsShown(isLoading, error) /\ PageReachable
    /\ clientTasks[i].id \notin UpdatingIds
    /\ callCount < MaxCalls
    /\ editingTask' = <<clientTasks[i]>>
    /\ showEditModal' = TRUE
    /\ last' = UserStep
    /\ UNCHANGED <<serverVars, httpVars, mounted, appVars, clientTasks, isLoading, error,
                   showCreateModal, isSubmitting, lastRefresh, isUpdating,
                   clientNow, calls, callCount>>

\* handleCloseEditModal: Cancel, the backdrop, Escape
CloseEditModal ==
  /\ showEditModal /\ ~unmounted
  /\ showEditModal' = FALSE
  /\ editingTask' = <<>>
  /\ last' = UserStep
  /\ UNCHANGED <<serverVars, httpVars, mounted, appVars, clientTasks, isLoading, error,
                 showCreateModal, isSubmitting, lastRefresh, isUpdating,
                 clientNow, calls, callCount>>

\* The error banner's close button: setError(null)
DismissError ==
  /\ error # <<>> /\ PageReachable
  /\ Commit(clientTasks, isLoading, <<>>, isUpdating)
  /\ last' = UserStep
  /\ UNCHANGED <<serverVars, httpVars, mounted, appVars, uiVars, lastRefresh, clientNow,
                 calls, callCount>>

\* An edit that restores nothing when its request fails.
UpdateTaskRollbackNone(previousTasks, currentTasks) == currentTasks

\* handleUpdateTask, catch: setTasks(previousTasks)
UpdateTaskRollback(previousTasks, currentTasks) == previousTasks

\* handleUpdateTask, to its await: the edit form is in the modal, its submit
\* button disabled while isSubmitting.
HandleUpdateTask ==
  \E typed \in EditInputs :
    /\ showEditModal /\ editingTask # <<>> /\ ~isSubmitting /\ ~unmounted
    /\ LET taskData == FormData(editingTask[1], typed)
           updatedTasks ==
             [i \in 1..Len(clientTasks) |->
                IF clientTasks[i].id = editingTask[1].id
                THEN Merge(clientTasks[i], taskData) ELSE clientTasks[i]]
       IN /\ ~Falsy(taskData.title)
          /\ Commit(updatedTasks, isLoading, error, isUpdating)
          /\ Start(Call("handleUpdateTask",
                        Request("PUT /api/tasks/:id", editingTask[1].id,
                                Undefined, taskData),
                        editingTask[1], clientTasks, EmptyBody))
    /\ isSubmitting' = TRUE
    /\ UNCHANGED <<serverVars, httpVars, mounted, appVars, showCreateModal,
                   showEditModal, editingTask, lastRefresh, clientNow>>

\* handleUpdateTask, from its await
UpdateTaskSettled ==
  \E id \in Pending :
    /\ Settled(id, "handleUpdateTask")
    /\ LET r == calls[id].response
       IN IF r.ok
          THEN /\ showEditModal' = SetState(showEditModal, FALSE)
               /\ editingTask' = SetState(editingTask, <<>>)
               /\ Commit(clientTasks, isLoading, error, isUpdating)
          ELSE /\ Commit(UpdateTaskRollback(calls[id].previousTasks, clientTasks),
                         isLoading,
                         ErrorOf(r.message, "Failed to update task"), isUpdating)
               /\ UNCHANGED <<showEditModal, editingTask>>
    /\ isSubmitting' = SetState(isSubmitting, FALSE)
    /\ Finish(id, IF calls[id].response.ok THEN "fulfilled" ELSE "rejected")
    /\ UNCHANGED <<serverVars, httpVars, mounted, appVars, showCreateModal, lastRefresh,
                   clientNow>>

----------------------------------------------------------------------------
(* The task cards (TaskCard.jsx).  A handler closes over the task prop of   *)
(* the render it was created in: the card's task when the user acts.        *)

Statuses == {"todo", "in-progress", "completed"}

\* What the user types into a card's subtask form.
SubtaskInputs == {" Review ", "   "}

\* String.prototype.trim, on what the user types.
Trim(typed) ==
  CASE typed = " Review " -> "Review"
    [] typed = "   " -> ""
    [] OTHER -> typed

\* A clock that gives two subtask forms the same instant.
TempIdOfOneInstant(t) == "temp-0"

\* `temp-${Date.now()}`
TempId(t) == "temp-" \o ToString(t)

\* A card that does not put back the task it captured.
CardRollbackNone(currentTasks, previousTask) == currentTasks

\* catch: onTaskUpdate(previousTask)
CardRollback(currentTasks, previousTask) ==
  HandleTaskUpdate(currentTasks, previousTask)

\* A status change that shows nothing until the server has answered.
StatusChangedLater(task, newStatus) == task

\* handleStatusChange: { ...task, status: newStatus }
StatusChanged(task, newStatus) == Merge(task, [status |-> newStatus])

\* A card's handler, to its await: it shows the updated task and sends the
\* request.  The card is there to act on only while the cards are shown.
CardStart(handler, request, task, updatedTask, tempSubtask) ==
  /\ CardsShown(isLoading, error) /\ PageReachable
  /\ Commit(HandleTaskUpdate(clientTasks, updatedTask), isLoading, error,
            isUpdating)
  /\ Start(Call(handler, request, task, <<>>, tempSubtask))
  /\ UNCHANGED <<serverVars, httpVars, mounted, appVars, uiVars, lastRefresh>>

\* A card's handler, from its await: what it shows is `shown` when the
\* request went through, and the captured task when it did not.
CardSettled(id, shown) ==
  /\ Commit(IF calls[id].response.ok THEN shown
            ELSE CardRollback(clientTasks, calls[id].task),
            isLoading, error, isUpdating)
  /\ Finish(id, IF calls[id].response.ok THEN "fulfilled" ELSE "rejected")
  /\ UNCHANGED <<serverVars, httpVars, mounted, appVars, uiVars, lastRefresh, clientNow>>

\* handleStatusChange, to its await.  The select is disabled while isUpdating
\* and fires for another value than the one shown.  setIsUpdating(true) is
\* lost with the card, which moves to the column of the new status.
HandleStatusChange ==
  \E i \in 1..Len(clientTasks), newStatus \in Statuses :
    LET task == clientTasks[i]
    IN /\ task.id \notin UpdatingIds
       /\ newStatus # task.status
       /\ CardStart("handleStatusChange",
                    Request("PUT /api/tasks/:id", task.id, Undefined,
                            [status |-> newStatus]),
                    task, StatusChanged(task, newStatus), EmptyBody)
       /\ UNCHANGED clientNow

StatusChangeSettled ==
  \E id \in Pending :
    /\ Settled(id, "handleStatusChange")
    /\ CardSettled(id, clientTasks)

\* A toggle that shows the first subtask toggled, whichever was clicked.
SubtaskToggledFirst(task, subtaskIndex) ==
  Merge(task,
        [subtasks |->
           [task.subtasks EXCEPT ![1] = Merge(@, [completed |-> ~@.completed])]])

\* handleSubtaskToggle, to its await
SubtaskToggled(task, subtaskIndex) ==
  Merge(task,
        [subtasks |->
           [task.subtasks EXCEPT ![subtaskIndex] =
              Merge(@, [completed |-> ~@.completed])]])

HandleSubtaskToggle ==
  \E i \in 1..Len(clientTasks) :
    \E k \in 1..Len(clientTasks[i].subtasks) :
      LET task == clientTasks[i]
          subtaskId == task.subtasks[k].id
          subtaskIndex == IndexOfId(task.subtasks, subtaskId)
          updatedTask == SubtaskToggled(task, subtaskIndex)
      IN /\ CardStart("handleSubtaskToggle",
                      Request("PUT /api/tasks/:taskId/subtasks/:subtaskId",
                              task.id, subtaskId,
                              [completed |->
                                 updatedTask.subtasks[subtaskIndex].completed]),
                      task, updatedTask, EmptyBody)
         /\ UNCHANGED clientNow

SubtaskToggleSettled ==
  \E id \in Pending :
    /\ Settled(id, "handleSubtaskToggle")
    /\ CardSettled(id, clientTasks)

\* A confirmation that appends the created subtask to the list that already
\* holds the temporary one.
SubtaskConfirmedBesideTemp(task, tempSubtask, createdSubtask) ==
  Merge(task, [subtasks |-> task.subtasks \o <<tempSubtask, createdSubtask>>])

\* handleAddSubtask, after the await: { ...task, subtasks: [...task.subtasks,
\* createdSubtask] }, where task is the prop the handler closed over: the
\* task before the temporary subtask was added.
SubtaskConfirmed(task, tempSubtask, createdSubtask) ==
  Merge(task, [subtasks |-> Append(task.subtasks, createdSubtask)])

\* handleAddSubtask, to its await
HandleAddSubtask ==
  \E i \in 1..Len(clientTasks), typed \in SubtaskInputs :
    LET task == clientTasks[i]
        tempSubtask == [id |-> TempId(clientNow), title |-> Trim(typed),
                        completed |-> FALSE]
    IN /\ Trim(typed) # ""
       /\ CardStart("handleAddSubtask",
                    Request("POST /api/tasks/:id/subtasks", task.id, Undefined,
                            [title |-> Trim(typed)]),
                    task,
                    Merge(task, [subtasks |-> Append(task.subtasks, tempSubtask)]),
                    tempSubtask)
       /\ clientNow' = clientNow + 1

AddSubtaskSettled ==
  \E id \in Pending :
    /\ Settled(id, "handleAddSubtask")
    /\ CardSettled(id,
         HandleTaskUpdate(clientTasks,
           SubtaskConfirmed(calls[id].task, calls[id].tempSubtask,
                            calls[id].response.data)))

\* handleDeleteSubtask, to its await
HandleDeleteSubtask ==
  \E i \in 1..Len(clientTasks) :
    \E k \in 1..Len(clientTasks[i].subtasks) :
      LET task == clientTasks[i]
          subtaskId == task.subtasks[k].id
          updatedSubtasks ==
            SelectSeq(task.subtasks, LAMBDA st : st.id # subtaskId)
      IN /\ CardStart("handleDeleteSubtask",
                      Request("DELETE /api/tasks/:taskId/subtasks/:subtaskId",
                              task.id, subtaskId, EmptyBody),
                      task, Merge(task, [subtasks |-> updatedSubtasks]),
                      EmptyBody)
         /\ UNCHANGED clientNow

DeleteSubtaskSettled ==
  \E id \in Pending :
    /\ Settled(id, "handleDeleteSubtask")
    /\ CardSettled(id, clientTasks)

\* handleDelete, to its await: the user confirms, setIsUpdating(true).  The
\* Delete button is disabled while isUpdating.
HandleDelete ==
  \E i \in 1..Len(clientTasks) :
    LET task == clientTasks[i]
    IN /\ CardsShown(isLoading, error) /\ PageReachable
       /\ task.id \notin UpdatingIds
       /\ Start(Call("handleDelete",
                     Request("DELETE /api/tasks/:id", task.id, Undefined,
                             EmptyBody),
                     task, <<>>, EmptyBody))
       /\ isUpdating' = isUpdating \cup {callCount + 1}
       /\ UNCHANGED <<serverVars, httpVars, mounted, appVars, clientTasks, isLoading,
                      error, uiVars, lastRefresh, clientNow>>

\* handleDelete, the user declines: if (!window.confirm(...)) return
DeclineDelete ==
  \E i \in 1..Len(clientTasks) :
    /\ CardsShown(isLoading, error) /\ PageReachable
    /\ clientTasks[i].id \notin UpdatingIds
    /\ last' = Step("declined", 0, NoCall.call)
    /\ UNCHANGED <<serverVars, httpVars, mounted, appVars, clientTasks,
                   isLoading, error, uiVars, lastRefresh, isUpdating,
                   clientNow, calls, callCount>>

\* handleDelete, from its await: onTaskDelete(task.id), or setIsUpdating(false)
DeleteSettled ==
  \E id \in Pending :
    /\ Settled(id, "handleDelete")
    /\ Commit(IF calls[id].response.ok
              THEN HandleTaskDelete(clientTasks, calls[id].task.id)
              ELSE clientTasks,
              isLoading, error, isUpdating \ {id})
    /\ Finish(id, IF calls[id].response.ok THEN "fulfilled" ELSE "rejected")
    /\ UNCHANGED <<serverVars, httpVars, mounted, appVars, uiVars, lastRefresh, clientNow>>

ClientNext ==
  \/ Mount
  \/ Refresh
  \/ ToggleAutoRefresh
  \/ AutoRefreshTick
  \/ LoadTasksSettled
  \/ OpenCreateModal
  \/ CloseCreateModal
  \/ HandleCreateTask
  \/ CreateTaskSettled
  \/ HandleEditTask
  \/ CloseEditModal
  \/ DismissError
  \/ HandleUpdateTask
  \/ UpdateTaskSettled
  \/ HandleStatusChange
  \/ StatusChangeSettled
  \/ HandleSubtaskToggle
  \/ SubtaskToggleSettled
  \/ HandleAddSubtask
  \/ AddSubtaskSettled
  \/ HandleDeleteSubtask
  \/ DeleteSubtaskSettled
  \/ HandleDelete
  \/ DeclineDelete
  \/ DeleteSettled
  \/ Deliver
  \/ FetchFails

\* The client and the server: the user acts, requests are answered or fail,
\* and the suspended handlers run on, in any order.
Init == StoreInit /\ ClientInit

Spec == Init /\ [][ClientNext]_vars

\* The same, with the teardown of TaskProvider at any moment.
TeardownNext == ClientNext \/ Unmount

SpecTeardown == Init /\ [][TeardownNext]_vars

----------------------------------------------------------------------------
(* The task board (components/TaskBoard.jsx): the selections and the list  *)
(* of cards computed from them.                                            *)

\* The order of the characters of a lowercased string, as < compares them.
CharCode(c) ==
  LET alphabet == <<" ", ",", "a", "b", "c", "d", "e", "f", "g", "h", "i",
                    "j", "k", "l", "m", "n", "o", "p", "q", "r", "s", "t",
                    "u", "v", "w", "x", "y", "z">>
  IN CHOOSE i \in 1..Len(alphabet) : alphabet[i] = c

\* a < b of two strings
StringLess(a, b) ==
  \E k \in 1..Len(b) :
    /\ \A i \in 1..(k - 1) : i <= Len(a) /\ a[i] = b[i]
    /\ \/ k = Len(a) + 1
       \/ k <= Len(a) /\ CharCode(a[k]) < CharCode(b[k])

\* useMemo(() => { ... }, [tasks, searchTerm, ...]): the outcomes of the
\* computation, each with the array that the tasks prop holds afterwards.
\* tasks.filter gives a new array and filtered.sort sorts that one.  A throw
\* of toLowerCase ends the render.  Array.prototype.sort is stable; where
\* the comparator is not a consistent order (a key that is undefined
\* compares neither below nor above anything) the order it gives is left
\* to the engine.
FilteredAndSortedTasks(ts, b) ==
  LET term == ToLowerCase(Chars(b.searchTerm))
      Has_(v) == IsString(v) /\ Includes(ToLowerCase(Chars(v)), term)
      SomeTag(task) == \E k \in 1..Len(task.tags) : Has_(task.tags[k])
      TestThrows(task) ==
        /\ b.searchTerm # ""
        /\ \/ ~IsString(task.title)
           \/ ~Has_(task.title) /\ ~IsString(task.description)
      matchesSearch(task) ==
        b.searchTerm = "" \/ Has_(task.title) \/ Has_(task.description)
          \/ SomeTag(task)
      matchesStatus(task) ==
        b.statusFilter = "all" \/ task.status = b.statusFilter
      matchesPriority(task) ==
        b.priorityFilter = "all" \/ task.priority = b.priorityFilter
      filtered ==
        SelectSeq(ts, LAMBDA task : /\ matchesSearch(task)
                                    /\ matchesStatus(task)
                                    /\ matchesPriority(task))
      n == Len(filtered)
      priorityOrder == [high |-> 3, medium |-> 2, low |-> 1]
      statusOrder ==
        ("todo" :> 1) @@ ("in-progress" :> 2) @@ ("completed" :> 3)
      \* new Date('9999-12-31'), on the axis of DateOf
      farFuture == 9999
      \* the value compared, and whether it is undefined
      NoValue(task) ==
        CASE b.sortBy = "priority" -> task.priority \notin DOMAIN priorityOrder
          [] b.sortBy = "status" -> task.status \notin DOMAIN statusOrder
          [] OTHER -> FALSE
      Value(task) ==
        CASE b.sortBy = "priority" -> priorityOrder[task.priority]
          [] b.sortBy = "dueDate" ->
               IF Falsy(Get(task, "dueDate")) THEN farFuture
               ELSE DateOf(task.dueDate)
          [] b.sortBy = "status" -> statusOrder[task.status]
          [] OTHER -> task.createdAt
      Less(x, y) ==
        IF b.sortBy = "title"
        THEN StringLess(ToLowerCase(Chars(x.title)),
                        ToLowerCase(Chars(y.title)))
        ELSE ~NoValue(x) /\ ~NoValue(y) /\ Value(x) < Value(y)
      Compare(x, y) ==
        IF Less(x, y) THEN (IF b.sortOrder = "asc" THEN -1 ELSE 1)
        ELSE IF Less(y, x) THEN (IF b.sortOrder = "asc" THEN 1 ELSE -1)
        ELSE 0
      SortThrows ==
        /\ b.sortBy = "title" /\ n > 1
        /\ \E i \in 1..n : ~IsString(filtered[i].title)
      Consistent ==
        \A i, j, k \in 1..n :
          (Compare(filtered[i], filtered[j]) = 0
             /\ Compare(filtered[j], filtered[k]) = 0)
            => Compare(filtered[i], filtered[k]) = 0
      \* x put behind the last element that does not come after it
      Insert(sorted, x) ==
        LET behind == {j \in 1..Len(sorted) : Compare(sorted[j], x) <= 0}
            at == IF behind = {} THEN 0
                  ELSE CHOOSE j \in behind : \A i \in behind : i <= j
        IN SubSeq(sorted, 1, at) \o <<x>> \o SubSeq(sorted, at + 1, Len(sorted))
      sortedTo[m \in 0..n] ==
        IF m = 0 THEN <<>> ELSE Insert(sortedTo[m - 1], filtered[m])
      Outcome(cards) == [threw |-> FALSE, tasks |-> cards, prop |-> ts]
  IN IF (\E i \in 1..Len(ts) : TestThrows(ts[i])) \/ SortThrows
     THEN {[threw |-> TRUE, tasks |-> <<>>, prop |-> ts]}
     ELSE IF Consistent
     THEN {Outcome(sortedTo[n])}
     ELSE {Outcome([i \in 1..n |-> filtered[p[i]]]) :
             p \in Permutations(1..n)}

\* The lists the board can be given: what GET /api/tasks returns at
\* start-up and after one creation or one update of any client of the API.
BoardTaskLists ==
  {<<>>, GetTasks(InitialTasks, EmptyBody).body}
    \cup {GetTasks(PostTask(InitialTasks, body, 1, Uuid(1)).tasks,
                   EmptyBody).body : body \in PostBodies}
    \cup {GetTasks(PutTask(InitialTasks, id, body, 1).tasks, EmptyBody).body :
            id \in TaskIdsOf(InitialTasks), body \in PutBodies}

\* A render of TaskBoard with these selections and this tasks prop.
Render(b, ts) ==
  /\ ~view.threw
  /\ board' = b
  /\ \E outcome \in FilteredAndSortedTasks(ts, b) :
       /\ view' = [threw |-> outcome.threw, tasks |-> outcome.tasks]
       /\ clientTasks' = outcome.prop
  /\ last' = UserStep
  /\ UNCHANGED <<serverVars, httpVars, mounted, unmounted, autoRefresh,
                 isLoading, error, showCreateModal, showEditModal,
                 editingTask, isSubmitting, lastRefresh, isUpdating,
                 clientNow, calls, callCount>>

\* The provider hands the board another list.
ReceiveTasks ==
  \E ts \in BoardTaskLists \ {clientTasks} : Render(board, ts)

SearchTerms == {"", "REACT", "task", "LEARNING"}

\* onChange of the search input
SetSearchTerm ==
  \E value \in SearchTerms \ {board.searchTerm} :
    Render([board EXCEPT !.searchTerm = value], clientTasks)

\* onChange of the status select
SetStatusFilter ==
  \E value \in {"all", "todo", "in-progress", "completed"}
                 \ {board.statusFilter} :
    Render([board EXCEPT !.statusFilter = value], clientTasks)

\* onChange of the priority select
SetPriorityFilter ==
  \E value \in {"all", "high", "medium", "low"} \ {board.priorityFilter} :
    Render([board EXCEPT !.priorityFilter = value], clientTasks)

\* onChange of the sort select
SetSortBy ==
  \E value \in {"createdAt", "title", "priority", "dueDate", "status"}
                 \ {board.sortBy} :
    Render([board EXCEPT !.sortBy = value], clientTasks)

\* onChange of the sort direction select
SetSortOrder ==
  \E value \in {"asc", "desc"} \ {board.sortOrder} :
    Render([board EXCEPT !.sortOrder = value], clientTasks)

\* The Clear Filters button
HandleClearFilters ==
  \E cleared \in {DefaultBoard} : Render(cleared, clientTasks)

BoardNext ==
  \/ ReceiveTasks
  \/ SetSearchTerm
  \/ SetStatusFilter
  \/ SetPriorityFilter
  \/ SetSortBy
  \/ SetSortOrder
  \/ HandleClearFilters

\* The board on its own: any list it can be given, any selections.
SpecBoard == Init /\ [][BoardNext]_vars

----------------------------------------------------------------------------
(* The API client on its own (utils/api.js against the server). *)

\* One call of a function of the API client, from the call to the settling
\* of the promise it returns: apiRequest sends the request, the server
\* answers it, and the response is turned into a value or an error.
ApiCall(name, r) ==
  /\ now < MaxRequests
  /\ Answer(r, Handle(tasks, r, now + 1, Uuid(uuidCount + 1)))
  /\ callCount' = callCount + 1
  /\ calls' = Append(calls,
                     [Call(name, r, EmptyBody, <<>>, EmptyBody)
                        EXCEPT !.stage = "settled",
                               !.response = ApiResult(res'.status, res'.body)])
  /\ last' = Step("settled", callCount', calls'[callCount'])
  /\ UNCHANGED <<mounted, appVars, clientTasks, isLoading, error,
                 showCreateModal, showEditModal, editingTask,
                 isSubmitting, lastRefresh, isUpdating, clientNow>>

\* The exported functions of utils/api.js, called by any caller with any
\* arguments.
ApiNext ==
  \/ \E filters \in Queries :
       ApiCall("fetchTasks", ListRequest(QueryOf(filters)))
  \/ \E id \in RequestTaskIds :
       ApiCall("fetchTask",
               Request("GET /api/tasks/:id", id, Undefined, EmptyBody))
  \/ \E taskData \in PostBodies :
       ApiCall("createTask",
               Request("POST /api/tasks", Undefined, Undefined, taskData))
  \/ \E id \in RequestTaskIds, taskData \in PutBodies :
       ApiCall("updateTask",
               Request("PUT /api/tasks/:id", id, Undefined, taskData))
  \/ \E id \in RequestTaskIds :
       ApiCall("deleteTask",
               Request("DELETE /api/tasks/:id", id, Undefined, EmptyBody))
  \/ \E taskId \in RequestTaskIds, subtaskData \in SubtaskPostBodies :
       ApiCall("createSubtask",
               Request("POST /api/tasks/:id/subtasks", taskId, Undefined,
                       subtaskData))
  \/ \E taskId \in RequestTaskIds :
       \E subtaskId \in RequestSubtaskIds(taskId),
          subtaskData \in SubtaskPutBodies :
         ApiCall("updateSubtask",
                 Request("PUT /api/tasks/:taskId/subtasks/:subtaskId", taskId,
                         subtaskId, subtaskData))
  \/ \E taskId \in RequestTaskIds :
       \E subtaskId \in RequestSubtaskIds(taskId) :
         ApiCall("deleteSubtask",
                 Request("DELETE /api/tasks/:taskId/subtasks/:subtaskId",
                         taskId, subtaskId, EmptyBody))
  \/ ApiCall("fetchReminders",
             Request("GET /api/reminders", Undefined, Undefined, EmptyBody))
  \/ \E reminderData \in ReminderPostBodies :
       ApiCall("createReminder",
               Request("POST /api/reminders", Undefined, Undefined,
                       reminderData))
  \/ \E id \in ReminderIds :
       ApiCall("deleteReminder",
               Request("DELETE /api/reminders/:id", id, Undefined, EmptyBody))
  \/ ApiCall("fetchStats",
             Request("GET /api/stats", Undefined, Undefined, EmptyBody))

\* The API client against the server, one call after the other.
SpecApi == ServerInit /\ [][ApiNext]_vars

----------------------------------------------------------------------------
(* Properties of the optimistic handlers, checked under Spec. *)

\* The copies of the task with this id in a list.  The client's list can
\* hold a task twice: handleCreateTask prepends the created task to a list
\* that a load, answered after the creation, has already brought it into.
TasksIn(ts, id) == {ts[i] : i \in {j \in 1..Len(ts) : ts[j].id = id}}

\* The TaskCard handlers that change the task before their request is sent,
\* and with the edit form's handler all the optimistic mutations.
CardMutations ==
  {"handleStatusChange", "handleSubtaskToggle", "handleAddSubtask",
   "handleDeleteSubtask"}

OptimisticMutations == CardMutations \cup {"handleUpdateTask"}

\* C1: when the status change is invoked on a task, the client's list shows
\* the new status while the request is still unanswered; when the request
\* then fails, the client's copy of the task shows the status it had when
\* the change was invoked.
C1_OptimisticStatusChange ==
  last.call.handler = "handleStatusChange" =>
    LET shown == TasksIn(clientTasks, last.call.task.id)
    IN /\ last.event = "started" =>
            /\ calls[last.id].stage = "sent"
            /\ shown # {}
            /\ \A task \in shown :
                 /\ task.status = last.call.request.body.status
                 /\ task.status # last.call.task.status
       /\ last.event = "rejected" =>
            \A task \in shown : task.status = last.call.task.status

\* A change from todo to in-progress was shown, its request failed, and the
\* card is back in todo.
C1_Witness ==
  /\ last.event = "rejected"
  /\ last.call.handler = "handleStatusChange"
  /\ last.call.task.status = "todo"
  /\ last.call.request.body.status = "in-progress"
  /\ \E task \in TasksIn(clientTasks, last.call.task.id) : task.status = "todo"

\* C2: subtask toggle, subtask deletion, subtask creation and the task edit
\* capture what the client shows before they change it (the card's task, or
\* the whole list for the edit form), and when the request fails the
\* client's state is reset to exactly what was captured.
C2_RollbackToSnapshot ==
  [][ LET step == last'
          id == step.call.task.id
      IN /\ (step.event = "started" /\ step.call.handler \in CardMutations) =>
              /\ step.call.task \in TasksIn(clientTasks, id)
              /\ step.call.task \notin TasksIn(clientTasks', id)
         /\ (step.event = "started" /\ step.call.handler = "handleUpdateTask") =>
              step.call.previousTasks = clientTasks
         /\ (step.event = "rejected" /\ step.call.handler \in CardMutations) =>
              /\ TasksIn(clientTasks', id) \subseteq {step.call.task}
              /\ Len(clientTasks') = Len(clientTasks)
              /\ \A i \in 1..Len(clientTasks) :
                   clientTasks[i].id # id => clientTasks'[i] = clientTasks[i]
         /\ (step.event = "rejected" /\ step.call.handler = "handleUpdateTask") =>
              clientTasks' = step.call.previousTasks ]_vars

\* A subtask deletion failed after another request had been answered, and
\* the card shows the subtasks it had, the deleted one among them.
C2_Witness ==
  /\ last.event = "rejected"
  /\ last.call.handler = "handleDeleteSubtask"
  /\ now > 1
  /\ TasksIn(clientTasks, last.call.task.id) = {last.call.task}
  /\ last.call.request.subtaskId \in TaskIdsOf(last.call.task.subtasks)

\* C3, as stated: whenever the request of an optimistic mutation fails, the
\* client's error state is non-null afterwards and carries a message.
C3_EveryFailureSurfaced ==
  (last.event = "rejected" /\ last.call.handler \in OptimisticMutations) =>
    (error # <<>> /\ error[1].message # "")

\* C3, as the code has it: a failed edit sets the error state to a message;
\* a failed TaskCard mutation is rolled back and leaves the error state as
\* it was.
C3_OnlyEditFailureSurfaced ==
  [][ LET step == last'
      IN /\ (step.event = "rejected" /\ step.call.handler = "handleUpdateTask") =>
              (error' # <<>> /\ error'[1].message # "")
         /\ (step.event = "rejected" /\ step.call.handler \in CardMutations) =>
              error' = error ]_vars

\* A subtask toggle failed, was rolled back, and the error state is null.
C3_Witness ==
  /\ last.event = "rejected"
  /\ last.call.handler = "handleSubtaskToggle"
  /\ TasksIn(clientTasks, last.call.task.id) = {last.call.task}
  /\ error = <<>>

\* C4, as stated: after a successful subtask creation the temporary entry
\* and the created entry are both in the client's subtask list of the task.
C4_TempAndCreatedRemain ==
  (last.event = "fulfilled" /\ last.call.handler = "handleAddSubtask") =>
    \A task \in TasksIn(clientTasks, last.call.task.id) :
      /\ last.call.tempSubtask.id \in TaskIdsOf(task.subtasks)
      /\ last.call.response.data.id \in TaskIdsOf(task.subtasks)

\* C4, as the code has it: the created subtask is appended to the subtasks
\* the handler captured before it added the temporary entry, so the client's
\* subtask list of the task is the captured list followed by the created
\* subtask.
C4_CreatedAppendedToCaptured ==
  (last.event = "fulfilled" /\ last.call.handler = "handleAddSubtask") =>
    \A task \in TasksIn(clientTasks, last.call.task.id) :
      task.subtasks = Append(last.call.task.subtasks, last.call.response.data)

\* A subtask creation on a card with two subtasks succeeded, and the card
\* shows three.
C4_Witness ==
  /\ last.event = "fulfilled"
  /\ last.call.handler = "handleAddSubtask"
  /\ Len(last.call.task.subtasks) = 2
  /\ \E task \in TasksIn(clientTasks, last.call.task.id) :
       Len(task.subtasks) = 3

\* C5: after a successful subtask creation the client's subtask list of the
\* task has the created subtask under the id the server gave it and has no
\* entry under the temporary id of that creation.
C5_TempIdReconciled ==
  (last.event = "fulfilled" /\ last.call.handler = "handleAddSubtask") =>
    \A task \in TasksIn(clientTasks, last.call.task.id) :
      LET created == last.call.response.data
      IN /\ created.id # last.call.tempSubtask.id
         /\ \E k \in 1..Len(task.subtasks) : task.subtasks[k] = created
         /\ \A k \in 1..Len(task.subtasks) :
              task.subtasks[k].id # last.call.tempSubtask.id

\* A subtask creation succeeded: the card shows the subtask under the
\* server's identifier, and the temporary identifier is gone.
C5_Witness ==
  /\ last.event = "fulfilled"
  /\ last.call.handler = "handleAddSubtask"
  /\ last.call.response.data.id = Uuid(1)
  /\ \E task \in TasksIn(clientTasks, last.call.task.id) :
       /\ Uuid(1) \in TaskIdsOf(task.subtasks)
       /\ last.call.tempSubtask.id \notin TaskIdsOf(task.subtasks)

\* C6: two mutations of the same task whose requests overlap can race, and
\* nothing orders them: when the earlier one is rejected, its rollback sets
\* the client's copy of the task to what it captured, whatever the mutation
\* that started after it has shown or the server has stored for it since.
C6_RollbackIgnoresLaterMutation ==
  [][ \A a \in Pending, b \in DOMAIN calls :
        (/\ calls[a].handler \in CardMutations
         /\ calls[b].handler \in OptimisticMutations
         /\ a \in calls[b].startedWhile
         /\ calls[b].task.id = calls[a].task.id
         /\ last' = Step("rejected", a, calls[a])
         /\ TasksIn(clientTasks, calls[a].task.id) # {})
        => TasksIn(clientTasks', calls[a].task.id) = {calls[a].task} ]_vars

\* Two card mutations of one task overlapped, both have run to their end,
\* the response handled last was the failure of the earlier one, and the
\* client's copy of the task is not the server's: the later mutation is
\* stored on the server and the client does not show it.
C6_Witness ==
  /\ Pending = {}
  /\ last.event = "rejected"
  /\ last.call.handler \in CardMutations
  /\ \E b \in DOMAIN calls :
       /\ last.id \in calls[b].startedWhile
       /\ calls[b].handler \in CardMutations
       /\ calls[b].task.id = last.call.task.id
       /\ calls[b].response.ok
       /\ \E shown \in TasksIn(clientTasks, last.call.task.id),
             stored \in TasksIn(tasks, last.call.task.id) :
            \/ shown.status # stored.status
            \/ shown.subtasks # stored.subtasks

\* What the client showed of a mutation's task when the mutation started.
SnapshotOf(call) ==
  IF call.handler = "handleUpdateTask"
  THEN TasksIn(call.previousTasks, call.task.id)
  ELSE {call.task}

\* C7, as stated: mutations of different tasks do not interfere.  When a
\* mutation was rejected and every other call of the run is a load that had
\* ended before it or a mutation of another task, then, once all the calls
\* have run to their end, the client's copy of the task is what it would be
\* had the mutation run alone: what the client showed when it started.
C7_DifferentTasksDoNotInterfere ==
  \A a \in DOMAIN calls :
    (/\ Pending = {}
     /\ calls[a].handler \in OptimisticMutations
     /\ ~calls[a].response.ok
     /\ \A b \in DOMAIN calls \ {a} :
          \/ /\ calls[b].handler = "loadTasks"
             /\ b < a /\ b \notin calls[a].startedWhile
          \/ /\ calls[b].handler \in OptimisticMutations
             /\ calls[b].task.id # calls[a].task.id)
    => TasksIn(clientTasks, calls[a].task.id) = SnapshotOf(calls[a])

----------------------------------------------------------------------------
(* Properties of the endpoints, checked under SpecServer. *)

\* C8: POST /api/tasks with a non-empty title answers 201 and appends exactly
\* one task; the stored task, which is the one returned, has status 'todo',
\* the supplied priority or 'medium' when none is supplied, no subtasks,
\* tags defaulting to empty, description and assignee defaulting to the empty
\* string, and an id that no task in the store had.
C8_CreateTaskDefaults ==
  [][ (Handled("POST /api/tasks") /\ ~Falsy(Get(req'.body, "title"))) =>
        /\ res'.status = 201
        /\ Len(tasks') = Len(tasks) + 1
        /\ SubSeq(tasks', 1, Len(tasks)) = tasks
        /\ LET stored == tasks'[Len(tasks')]
               body == req'.body
           IN /\ stored.title = body.title
              /\ stored.status = "todo"
              /\ stored.priority =
                   IF Has(body, "priority") THEN body.priority ELSE "medium"
              /\ stored.subtasks = <<>>
              /\ ~Has(body, "tags") => stored.tags = <<>>
              /\ ~Has(body, "description") => stored.description = ""
              /\ ~Has(body, "assignee") => stored.assignee = ""
              /\ stored.id \notin TaskIdsOf(tasks)
              /\ \A k \in {"id", "title", "status", "priority", "subtasks",
                           "tags", "description", "assignee"} :
                   res'.body[k] = stored[k] ]_vars

\* A creation whose body carries a status and subtasks and no usable default
\* was answered 201, and the stored task is in 'todo' with no subtasks.
C8_Witness ==
  /\ req.op = "POST /api/tasks"
  /\ res.status = 201
  /\ Has(req.body, "status") /\ req.body.status = "completed"
  /\ tasks[Len(tasks)].status = "todo"
  /\ tasks[Len(tasks)].subtasks = <<>>
  /\ Len(tasks) = Len(InitialTasks) + 1

\* C9: POST /api/tasks with an empty or missing title answers 400 and leaves
\* the task collection as it was.
C9_CreateTaskNeedsTitle ==
  [][ (Handled("POST /api/tasks") /\ Falsy(Get(req'.body, "title"))) =>
        /\ res'.status = 400
        /\ tasks' = tasks ]_vars

\* A creation with the empty string as title was rejected after an earlier
\* request had been handled.
C9_Witness ==
  /\ req.op = "POST /api/tasks"
  /\ Has(req.body, "title") /\ req.body.title = ""
  /\ res.status = 400
  /\ now > 1

\* C10: PUT /api/tasks/:id of an id in the store keeps the number of tasks,
\* every other task, the position of the task, and within the task every
\* field that the body does not name, updatedAt aside.
C10_UpdateTaskFrame ==
  [][ (Handled("PUT /api/tasks/:id") /\ req'.id \in TaskIdsOf(tasks)) =>
        /\ res'.status = 200
        /\ Len(tasks') = Len(tasks)
        /\ \E i \in 1..Len(tasks) :
             /\ tasks[i].id = req'.id
             /\ \A j \in 1..Len(tasks) : j # i => tasks'[j] = tasks[j]
             /\ DOMAIN tasks'[i] =
                  DOMAIN tasks[i] \cup DOMAIN req'.body \cup {"updatedAt"}
             /\ \A k \in DOMAIN tasks[i] \ (DOMAIN req'.body \cup {"updatedAt"}) :
                  tasks'[i][k] = tasks[i][k] ]_vars

\* A status-only update of the first seeded task went through: the status is
\* the new one, the other seeded fields are there, updatedAt is the request's.
C10_Witness ==
  /\ req.op = "PUT /api/tasks/:id"
  /\ req.id = "1"
  /\ req.body = [status |-> "completed"]
  /\ res.status = 200
  /\ tasks[1].status = "completed"
  /\ tasks[1].title = InitialTasks[1].title
  /\ tasks[1].subtasks = InitialTasks[1].subtasks
  /\ tasks[1].updatedAt = now

\* C11, as stated: DELETE /api/tasks/:id of an id in the store answers 204
\* and removes the task, so that the same DELETE sent again answers 404 and
\* GET /api/tasks/:id of that id answers 404; DELETE of an id that is not in
\* the store answers 404 and leaves the store as it was.
C11_DeleteTwice ==
  [][ Handled("DELETE /api/tasks/:id") =>
        IF req'.id \in TaskIdsOf(tasks)
        THEN /\ res'.status = 204
             /\ Len(tasks') = Len(tasks) - 1
             /\ DeleteTask(tasks', req'.id).status = 404
             /\ GetTask(tasks', req'.id).status = 404
        ELSE /\ res'.status = 404
             /\ tasks' = tasks ]_vars

\* The tasks of a response body, as a set.
Listed(out) == {out.body[i] : i \in 1..Len(out.body)}

\* C12, as stated: in every server state GET /api/tasks?status=s returns
\* exactly the tasks whose status is s, the results for todo, in-progress
\* and completed are pairwise disjoint, and together they are the result of
\* GET /api/tasks without filters.
C12_StatusFiltersPartition ==
  LET all == GetTasks(tasks, EmptyBody)
      Of(s) == GetTasks(tasks, [status |-> s])
  IN /\ \A s \in Statuses :
          /\ Of(s).status = 200
          /\ Of(s).body = SelectSeq(all.body, LAMBDA task : task.status = s)
     /\ \A s1, s2 \in Statuses :
          s1 # s2 => Listed(Of(s1)) \cap Listed(Of(s2)) = {}
     /\ UNION {Listed(Of(s)) : s \in Statuses} = Listed(all)

\* The search term is a case-insensitive substring of a text.
FoundIn(term, text) ==
  /\ IsString(text)
  /\ Includes(ToLowerCase(Chars(text)), ToLowerCase(Chars(term)))

\* A task passes every filter that the query supplies.
Passes(task, query) ==
  /\ ~Falsy(Get(query, "status")) => task.status = query.status
  /\ ~Falsy(Get(query, "priority")) => task.priority = query.priority
  /\ ~Falsy(Get(query, "search")) =>
       \/ FoundIn(query.search, task.title)
       \/ FoundIn(query.search, task.description)

\* C13, as stated: GET /api/tasks returns, in store order, exactly the tasks
\* that pass every supplied filter: status and priority by equality, search
\* as a case-insensitive substring of the title or of the description.
C13_ListFilters ==
  [][ Handled("GET /api/tasks") =>
        /\ res'.status = 200
        /\ LET passing == SelectSeq(tasks, LAMBDA task : Passes(task, req'.query))
           IN res'.body = [i \in 1..Len(passing) |-> ToJSON(passing[i])] ]_vars

\* The requests that change a task when they succeed.
TaskChanges ==
  {"PUT /api/tasks/:id", "POST /api/tasks/:id/subtasks",
   "PUT /api/tasks/:taskId/subtasks/:subtaskId",
   "DELETE /api/tasks/:taskId/subtasks/:subtaskId"}

\* C14: every successful task PUT, subtask POST, subtask PUT and subtask
\* DELETE sets updatedAt of the task it changes to the server time of the
\* request, for a task PUT also when the body carries an updatedAt.
C14_UpdatedAtRefreshed ==
  [][ (now' # now /\ req'.op \in TaskChanges /\ res'.status \in 200..299) =>
        LET taskIndex == IndexOfId(tasks, req'.id)
        IN /\ taskIndex # 0
           /\ tasks'[taskIndex].updatedAt = now'
           /\ tasks'[taskIndex].updatedAt # tasks[taskIndex].updatedAt ]_vars

\* A task PUT whose body carries updatedAt 99 went through, and the stored
\* updatedAt is the time of the request.
C14_Witness ==
  /\ req.op = "PUT /api/tasks/:id"
  /\ Has(req.body, "updatedAt") /\ req.body.updatedAt = 99
  /\ res.status = 200
  /\ now = 2
  /\ \E i \in 1..Len(tasks) : tasks[i].updatedAt = 2 /\ tasks[i].note = "extra"

\* C15, as stated: after a successful PUT /api/tasks/X whose body carries an
\* id Y other than X, the stored record carries id Y, GET /api/tasks/Y returns
\* that record, and GET /api/tasks/X answers 404 unless another task has id X;
\* status and priority take the value the body supplies.
C15_IdOverwritten ==
  [][ (Handled("PUT /api/tasks/:id") /\ res'.status = 200) =>
        LET taskIndex == IndexOfId(tasks, req'.id)
            stored    == tasks'[taskIndex]
        IN /\ (Has(req'.body, "status") => stored.status = req'.body.status)
           /\ (Has(req'.body, "priority") =>
                 stored.priority = req'.body.priority)
           /\ (Has(req'.body, "id") /\ req'.body.id # req'.id) =>
                 /\ stored.id = req'.body.id
                 /\ GetTask(tasks', req'.body.id).status = 200
                 /\ GetTask(tasks', req'.body.id).body = ToJSON(stored)
                 /\ IF \E i \in 1..Len(tasks') : tasks'[i].id = req'.id
                    THEN GetTask(tasks', req'.id).status = 200
                    ELSE GetTask(tasks', req'.id).status = 404 ]_vars

\* The elements of a list carry pairwise distinct ids.
DistinctIds(list) ==
  \A i, j \in 1..Len(list) : list[i].id = list[j].id => i = j

\* C16, as stated: in every state of the server, task ids are pairwise
\* distinct across the collection and subtask ids are pairwise distinct
\* within their parent task.
C16_IdsDistinct ==
  /\ DistinctIds(tasks)
  /\ \A i \in 1..Len(tasks) : DistinctIds(tasks[i].subtasks)

Priorities == {"low", "medium", "high"}

\* C17, as stated: in every state of the server, every stored task has a
\* non-empty title, a status among todo, in-progress, completed and a priority
\* among low, medium, high; every stored subtask has a non-empty title and a
\* boolean completed flag.
C17_FieldsValid ==
  \A i \in 1..Len(tasks) :
    /\ IsString(tasks[i].title) /\ tasks[i].title # ""
    /\ tasks[i].status \in Statuses
    /\ tasks[i].priority \in Priorities
    /\ \A k \in 1..Len(tasks[i].subtasks) :
         LET subtask == tasks[i].subtasks[k]
         IN /\ IsString(subtask.title) /\ subtask.title # ""
            /\ subtask.completed \in BOOLEAN

SubtaskRequests ==
  {"POST /api/tasks/:id/subtasks",
   "PUT /api/tasks/:taskId/subtasks/:subtaskId",
   "DELETE /api/tasks/:taskId/subtasks/:subtaskId"}

\* The subtask ids of every task that has the given id.
SubtaskIdsUnder(ts, id) ==
  UNION {TaskIdsOf(ts[i].subtasks) : i \in {k \in 1..Len(ts) : ts[k].id = id}}

\* C18: a subtask request for a task id that is not in the store answers 404
\* 'Task not found' whatever the subtask id and the body, also where a
\* creation has no title; a subtask PUT or DELETE for a task in the store and
\* a subtask id that is not under it answers 404 'Subtask not found'.
C18_TaskThenSubtask ==
  [][ (now' # now /\ req'.op \in SubtaskRequests) =>
        IF req'.id \notin TaskIdsOf(tasks)
        THEN res' = [status |-> 404, body |-> [error |-> "Task not found"]]
        ELSE (/\ req'.op # "POST /api/tasks/:id/subtasks"
              /\ req'.subtaskId \notin SubtaskIdsUnder(tasks, req'.id)) =>
               res' = [status |-> 404,
                       body |-> [error |-> "Subtask not found"]] ]_vars

\* A subtask creation without a title, for a task that is not in the store,
\* was answered 404 'Task not found'.
C18_Witness ==
  /\ req.op = "POST /api/tasks/:id/subtasks"
  /\ req.id \notin TaskIdsOf(tasks)
  /\ Falsy(Get(req.body, "title"))
  /\ res = [status |-> 404, body |-> [error |-> "Task not found"]]

\* C19: a request answered 400 or 404 leaves the task collection, subtasks
\* and timestamps included, and the reminder collection as they were.
C19_FailureChangesNothing ==
  [][ (now' # now /\ res'.status \in {400, 404}) =>
        /\ tasks' = tasks
        /\ reminders' = reminders ]_vars

\* A subtask update for a task in the store and a subtask id that is not
\* under it was answered 404, after an earlier request had changed the store.
C19_Witness ==
  /\ req.op = "PUT /api/tasks/:taskId/subtasks/:subtaskId"
  /\ req.id \in TaskIdsOf(tasks)
  /\ res = [status |-> 404, body |-> [error |-> "Subtask not found"]]
  /\ tasks # InitialTasks

\* C20: DELETE /api/tasks/:id leaves the reminder collection as it was, and
\* POST /api/reminders whose taskId, message and reminderTime all pass the
\* handler's presence test (none is missing or empty) answers 201 with
\* isActive true and appends the reminder, whether or not a task has that id.
C20_NoReferentialIntegrity ==
  [][ /\ Handled("DELETE /api/tasks/:id") => reminders' = reminders
      /\ (/\ Handled("POST /api/reminders")
          /\ ~Falsy(Get(req'.body, "taskId"))
          /\ ~Falsy(Get(req'.body, "message"))
          /\ ~Falsy(Get(req'.body, "reminderTime"))) =>
            /\ res'.status = 201
            /\ res'.body.isActive = TRUE
            /\ res'.body.taskId = req'.body.taskId
            /\ reminders' = Append(reminders, res'.body) ]_vars

\* Task 1 was deleted and its seeded reminder is still there; then a reminder
\* for that id was created.
C20_Witness ==
  /\ req.op = "POST /api/reminders"
  /\ res.status = 201 /\ res.body.isActive = TRUE
  /\ res.body.taskId \notin TaskIdsOf(tasks)
  /\ Len(tasks) < Len(InitialTasks)
  /\ Len(reminders) = Len(InitialReminders) + 1
  /\ \A i \in 1..Len(reminders) : reminders[i].taskId \notin TaskIdsOf(tasks)

\* The positions of the tasks of the store that have a status.
WithStatus(status) == {i \in 1..Len(tasks) : tasks[i].status = status}

\* C21: GET /api/stats changes neither collection and reports total as the
\* number of tasks, todo, inProgress and completed as the number of tasks with
\* exactly that status, and overdue as the number of tasks that have a due
\* date before the time of the request and a status other than completed.
C21_Stats ==
  [][ Handled("GET /api/stats") =>
        /\ tasks' = tasks /\ reminders' = reminders
        /\ res'.status = 200
        /\ res'.body.total = Len(tasks)
        /\ res'.body.todo = Cardinality(WithStatus("todo"))
        /\ res'.body.inProgress = Cardinality(WithStatus("in-progress"))
        /\ res'.body.completed = Cardinality(WithStatus("completed"))
        /\ res'.body.overdue =
             Cardinality({i \in 1..Len(tasks) :
                            /\ Get(tasks[i], "dueDate") \notin
                                 {Undefined, Null, ""}
                            /\ DateOf(tasks[i].dueDate) < now'
                            /\ tasks[i].status # "completed"}) ]_vars

\* The statistics were read when one task was past its due date and
\* completed, and another was not yet due: none is reported as overdue.
C21_Witness ==
  /\ req.op = "GET /api/stats"
  /\ res.status = 200
  /\ res.body.completed = 1 /\ res.body.overdue = 0 /\ res.body.total = 2
  /\ \E i \in 1..Len(tasks) :
       /\ tasks[i].status = "completed"
       /\ ~Falsy(Get(tasks[i], "dueDate"))
       /\ DateOf(tasks[i].dueDate) < now

\* The requests that name one task in their path.
OneTaskRequests == TaskChanges \cup {"DELETE /api/tasks/:id"}

\* C29: a task PUT or DELETE and a subtask POST, PUT or DELETE change at most
\* one task, one that has the id of the path: the other tasks and their
\* order and the reminders stay, and a subtask request changes within its
\* task only the subtask list and updatedAt.
C29_OneTaskFrame ==
  [][ (now' # now /\ req'.op \in OneTaskRequests) =>
        /\ reminders' = reminders
        /\ \/ tasks' = tasks
           \/ \E k \in 1..Len(tasks) :
                /\ tasks[k].id = req'.id
                /\ IF req'.op = "DELETE /api/tasks/:id"
                   THEN tasks' = SubSeq(tasks, 1, k - 1) \o
                                 SubSeq(tasks, k + 1, Len(tasks))
                   ELSE /\ Len(tasks') = Len(tasks)
                        /\ \A i \in 1..Len(tasks) : i # k => tasks'[i] = tasks[i]
                        /\ req'.op \in SubtaskRequests =>
                             /\ DOMAIN tasks'[k] = DOMAIN tasks[k]
                             /\ \A key \in DOMAIN tasks[k] :
                                  key \notin {"subtasks", "updatedAt"} =>
                                    tasks'[k][key] = tasks[k][key] ]_vars

\* A subtask was added to the second task after the first task had been
\* changed: the first task is as that change left it.
C29_Witness ==
  /\ req.op = "POST /api/tasks/:id/subtasks"
  /\ res.status = 201
  /\ Len(tasks) = 2 /\ req.id = tasks[2].id
  /\ tasks[1] # InitialTasks[1] /\ tasks[1].updatedAt = 1
  /\ tasks[2].updatedAt = 2
  /\ Len(tasks[2].subtasks) = Len(InitialTasks[2].subtasks) + 1
  /\ tasks[2].status = InitialTasks[2].status

\* C23, as stated: the initial list fetch is cancelled when TaskProvider is
\* torn down: a response that arrives after the teardown does not fulfil the
\* fetch, and when loadTasks runs on after such a response or failure,
\* neither the task list nor the error state nor anything else it writes
\* changes.
C23_LoadCancelledOnTeardown ==
  [][ (/\ unmounted
       /\ 1 \in Pending /\ calls[1].handler = "loadTasks" /\ calls[1].orphan) =>
        /\ calls'[1].stage = "settled" => ~calls'[1].response.ok
        /\ calls'[1].stage = "done" =>
             /\ clientTasks' = clientTasks
             /\ error' = error
             /\ lastRefresh' = lastRefresh
             /\ last'.event # "fulfilled" ]_vars

\* The loadTasks calls that have not run to their end.
LoadsInFlight == {id \in Pending : calls[id].handler = "loadTasks"}

\* C30, as stated: isLoading is true whenever at least one loadTasks call is
\* in flight, also when loads overlap.
C30_LoadingWhileInFlight == LoadsInFlight # {} => isLoading

\* A step in which a handler runs to its await, as the next call.
Started(handler) ==
  /\ callCount' = callCount + 1
  /\ calls'[callCount'].handler = handler

\* A step in which the call with this id runs from its await to its end.
Resumed(id) == id \in Pending /\ calls'[id].stage = "done"

\* C25, as stated: loadTasks clears the error when it starts; when its
\* request succeeds it replaces the client's list by the fetched list and the
\* error is null; when it fails it leaves the list, sets the error and sends
\* no request: a load starts only in a step of its own, not in one in which
\* a handler runs on after a failure.
C25_LoadTasksOutcome ==
  [][ /\ Started("loadTasks") =>
           /\ error' = <<>>
           /\ \A id \in DOMAIN calls : calls'[id] = calls[id]
      /\ \A id \in LoadsInFlight : Resumed(id) =>
           /\ callCount' = callCount
           /\ IF calls[id].response.ok
              THEN /\ clientTasks' = calls[id].response.data
                   /\ error' = <<>>
              ELSE /\ clientTasks' = clientTasks
                   /\ error' # <<>>
                   /\ error'[1].message # "" ]_vars

\* C25, amended: as stated, except that a successful load leaves the error
\* state as it is, which is null unless another handler has set it since the
\* load started.
C25_LoadTasksKeepsError ==
  [][ /\ Started("loadTasks") =>
           /\ error' = <<>>
           /\ \A id \in DOMAIN calls : calls'[id] = calls[id]
      /\ \A id \in LoadsInFlight : Resumed(id) =>
           /\ callCount' = callCount
           /\ IF calls[id].response.ok
              THEN /\ clientTasks' = calls[id].response.data
                   /\ error' = error
                   /\ (error # <<>> =>
                         \E other \in DOMAIN calls :
                           /\ other # id
                           /\ calls[other].stage = "done"
                           /\ ~calls[other].response.ok)
              ELSE /\ clientTasks' = clientTasks
                   /\ error' # <<>>
                   /\ error'[1].message # "" ]_vars

\* A load has failed after an earlier load had brought the tasks: the list
\* is still there, the error is set, and no request is in flight.
C25_Witness ==
  /\ last.event = "rejected" /\ last.call.handler = "loadTasks"
  /\ error # <<>>
  /\ clientTasks # <<>>
  /\ Pending = {}

\* The handleCreateTask calls that have not run to their end.
CreatesInFlight == {id \in Pending : calls[id].handler = "handleCreateTask"}

DeletesInFlight == {id \in Pending : calls[id].handler = "handleDelete"}

\* C28: handleDelete leaves the client's list as it is when the user
\* declines, and when it sends its request; it takes the task out of the
\* list when the server has answered the DELETE successfully, and leaves the
\* list as it is when the DELETE has failed.
C28_DeleteNotOptimistic ==
  [][ /\ Started("handleDelete") =>
           /\ clientTasks' = clientTasks
           /\ calls'[callCount'].request.op = "DELETE /api/tasks/:id"
      /\ last'.event = "declined" =>
           /\ clientTasks' = clientTasks
           /\ calls' = calls
      /\ \A id \in DeletesInFlight :
           /\ (calls[id].stage = "sent" /\ calls'[id].stage = "settled") =>
                clientTasks' = clientTasks
           /\ Resumed(id) =>
                IF calls[id].response.ok
                THEN /\ TasksIn(clientTasks', calls[id].task.id) = {}
                     /\ clientTasks' =
                          SelectSeq(clientTasks,
                                    LAMBDA task : task.id # calls[id].task.id)
                ELSE clientTasks' = clientTasks ]_vars

\* A DELETE has failed after it reached no server: the task is in the list.
C28_Witness ==
  /\ last.event = "rejected" /\ last.call.handler = "handleDelete"
  /\ TasksIn(clientTasks, last.call.task.id) # {}
  /\ TaskIdsOf(tasks) = TaskIdsOf(InitialTasks)

\* The handlers of the user's actions on tasks.
UserActions ==
  OptimisticMutations \cup {"handleCreateTask", "handleDelete"}

\* The run so far is a successful load followed by user actions issued one
\* at a time, each answered successfully and run to its end before the next.
Sequential ==
  /\ calls # <<>> /\ Pending = {}
  /\ calls[1].handler = "loadTasks"
  /\ \A id \in DOMAIN calls :
       /\ calls[id].startedWhile = {}
       /\ calls[id].response.ok
       /\ id > 1 => calls[id].handler \in UserActions

\* What the claim compares of a task.
Compared(task) ==
  [title |-> task.title, status |-> task.status, priority |-> task.priority,
   subtasks |-> [k \in 1..Len(task.subtasks) |->
                   [id |-> task.subtasks[k].id,
                    title |-> task.subtasks[k].title,
                    completed |-> task.subtasks[k].completed]]]

\* C26: after a successful load and user actions issued one at a time, each
\* answered successfully before the next, the client and the server hold the
\* same task ids and, for each task, the same title, status, priority and
\* sequence of subtasks.
C26_SequentialConsistency ==
  Sequential =>
    /\ TaskIdsOf(clientTasks) = TaskIdsOf(tasks)
    /\ \A i \in 1..Len(clientTasks), j \in 1..Len(tasks) :
         clientTasks[i].id = tasks[j].id =>
           Compared(clientTasks[i]) = Compared(tasks[j])

\* A subtask was added and then toggled, one action after the other.
C26_Witness ==
  /\ Sequential
  /\ Len(calls) = 3
  /\ calls[2].handler = "handleAddSubtask"
  /\ calls[3].handler = "handleSubtaskToggle"
  /\ calls[3].request.subtaskId = calls[2].response.data.id

\* C22: every call of an API client function issues exactly one request; a
\* response that is not 2xx becomes a thrown error whose message is the
\* error field of the response body when there is one and otherwise a
\* generic message with the HTTP status; a 204 gives null; any other 2xx
\* response gives the parsed body.
C22_ApiClient ==
  [][ callCount' = callCount + 1 =>
        LET result == calls'[callCount'].response
        IN /\ now' = now + 1
           /\ req' = calls'[callCount'].request
           /\ res'.status \notin 200..299 =>
                /\ ~result.ok
                /\ result.message =
                     IF Has(res'.body, "error") THEN res'.body.error
                     ELSE "HTTP error! status: " \o ToString(res'.status)
           /\ res'.status = 204 => result.ok /\ result.data = Null
           /\ res'.status \in 200..299 \ {204} =>
                result.ok /\ result.data = res'.body ]_vars

\* A call gave the parsed body; the next was answered 500 without a message
\* of the server and threw the generic one.
C22_Witness ==
  /\ Len(calls) = 2
  /\ calls[1].handler = "updateTask"
  /\ calls[1].response.ok
  /\ calls[2].handler = "fetchTasks"
  /\ res.status = 500
  /\ ~calls[2].response.ok
  /\ calls[2].response.message = "HTTP error! status: 500"

\* C24: the board's view holds exactly the tasks of the list that pass the
\* search term (empty, or a case-insensitive substring of the title, the
\* description or a tag), the status filter and the priority filter, in the
\* order of the selected sort key and direction, and computing it leaves
\* the task list as it was.
C24_FilteredSortedView ==
  [][ LET term == ToLowerCase(Chars(board'.searchTerm))
          Within(v) == IsString(v) /\ Includes(ToLowerCase(Chars(v)), term)
          Shown(task) ==
            /\ \/ board'.searchTerm = ""
               \/ Within(task.title) \/ Within(task.description)
               \/ \E k \in 1..Len(task.tags) : Within(task.tags[k])
            /\ board'.statusFilter \in {"all", task.status}
            /\ board'.priorityFilter \in {"all", task.priority}
          \* a task outside the enum of the sort key has no rank
          Ranked(task) ==
            /\ board'.sortBy = "priority" =>
                 task.priority \in {"high", "medium", "low"}
            /\ board'.sortBy = "status" =>
                 task.status \in {"todo", "in-progress", "completed"}
          Rank(task) ==
            CASE board'.sortBy = "priority" ->
                   (CASE task.priority = "high" -> 3
                      [] task.priority = "medium" -> 2
                      [] task.priority = "low" -> 1)
              [] board'.sortBy = "status" ->
                   (CASE task.status = "todo" -> 1
                      [] task.status = "in-progress" -> 2
                      [] task.status = "completed" -> 3)
              [] board'.sortBy = "dueDate" ->
                   IF Falsy(Get(task, "dueDate")) THEN 9999
                   ELSE DateOf(task.dueDate)
              [] OTHER -> task.createdAt
          Before(x, y) ==
            IF board'.sortBy = "title"
            THEN StringLess(ToLowerCase(Chars(x.title)),
                            ToLowerCase(Chars(y.title)))
            ELSE Rank(x) < Rank(y)
          shown == view'.tasks
      IN /\ ~view'.threw
         /\ \A task \in {clientTasks'[i] : i \in 1..Len(clientTasks')} :
              Shown(task) <=> \E k \in 1..Len(shown) : shown[k] = task
         /\ Len(shown) = Cardinality({i \in 1..Len(clientTasks') :
                                        Shown(clientTasks'[i])})
         /\ \A j \in 1..Len(shown) : \A i \in 1..(j - 1) :
              (Ranked(shown[i]) /\ Ranked(shown[j])) =>
                IF board'.sortOrder = "asc"
                THEN ~Before(shown[j], shown[i])
                ELSE ~Before(shown[i], shown[j])
         /\ board' # board => clientTasks' = clientTasks ]_vars

====
